---------------------------- MODULE Spec2Model ----------------------------
(***************************************************************************)
(* A model of the tourism assistant: TourismAgent.process_query and the    *)
(* pure functions it is built from (src/agents/tourism_agent.py,            *)
(* src/agents/places_agent.py, src/agents/weather_agent.py).                *)
(*                                                                         *)
(* Text is modelled by TLA+ strings, character by character: Len, SubSeq   *)
(* and \o act on strings as Python's len, slicing and + do.  Positions are *)
(* 1-based; a position 0 stands for Python's -1 ("not found").  Characters *)
(* outside ASCII in the program's message texts (emoji, the degree sign)   *)
(* are written as bracketed ASCII names such as [wave]; no code path       *)
(* inspects them.  Queries and provider texts hold no line breaks.         *)
(***************************************************************************)
EXTENDS Integers, Sequences, FiniteSets, TLC

(***************************************************************************)
(* Python str primitives                                                   *)
(***************************************************************************)
UpperChars == "ABCDEFGHIJKLMNOPQRSTUVWXYZ"
LowerChars == "abcdefghijklmnopqrstuvwxyz"
DigitChars == "0123456789"

Chr(s, i) == SubSeq(s, i, i)

CharSet(s) == {Chr(s, i) : i \in 1..Len(s)}

UpperSet == CharSet(UpperChars)
LowerSet == CharSet(LowerChars)
DigitSet == CharSet(DigitChars)
AlphaSet == UpperSet \cup LowerSet
\* \s of the re module and the characters str.split() and str.strip() drop
SpaceSet == {" ", "\t", "\n"}
\* \w of the re module
WordSet == AlphaSet \cup DigitSet \cup {"_"}

LowerMap == [c \in UpperSet |-> Chr(LowerChars, CHOOSE i \in 1..26 : Chr(UpperChars, i) = c)]
UpperMap == [c \in LowerSet |-> Chr(UpperChars, CHOOSE i \in 1..26 : Chr(LowerChars, i) = c)]

LowerChar(c) == IF c \in UpperSet THEN LowerMap[c] ELSE c
UpperChar(c) == IF c \in LowerSet THEN UpperMap[c] ELSE c

Min(S) == CHOOSE x \in S : \A y \in S : x <= y
Max(S) == CHOOSE x \in S : \A y \in S : x >= y

\* LET x == v IN F(x), with v computed once however often F uses x
Let(v, F(_)) == F(v)

\* the characters lo..hi of s, each changed by str.lower() (the text is halved at
\* each step only to keep the evaluation shallow)
RECURSIVE LowerRange(_, _, _)
LowerRange(s, lo, hi) ==
    IF lo > hi THEN ""
    ELSE IF lo = hi THEN LowerChar(Chr(s, lo))
    ELSE LET mid == (lo + hi) \div 2
         IN  LowerRange(s, lo, mid) \o LowerRange(s, mid + 1, hi)

\* str.lower()
Lower(s) == LowerRange(s, 1, Len(s))

\* s[i-1:] of Python, for a 1-based i
From(s, i) == SubSeq(s, i, Len(s))

\* str.find(sub, start): the first position >= from where sub occurs, 0 if none
Find(s, sub, from) ==
    Let({i \in from..(Len(s) - Len(sub) + 1) : SubSeq(s, i, i + Len(sub) - 1) = sub},
        LAMBDA hits : IF hits = {} THEN 0 ELSE Min(hits))

\* sub in s
Contains(s, sub) == Find(s, sub, 1) # 0

StartsWith(s, p) == Len(p) <= Len(s) /\ SubSeq(s, 1, Len(p)) = p
EndsWith(s, p) == Len(p) <= Len(s) /\ SubSeq(s, Len(s) - Len(p) + 1, Len(s)) = p

\* str.strip()
Strip(s) ==
    Let({i \in 1..Len(s) : Chr(s, i) \notin SpaceSet},
        LAMBDA keep : IF keep = {} THEN "" ELSE SubSeq(s, Min(keep), Max(keep)))

\* the end of the run of non-separator characters that starts at i
RunEnd(s, i, seps) ==
    Min({j \in i..(Len(s) + 1) : j > Len(s) \/ Chr(s, j) \in seps}) - 1

\* str.split(): the maximal runs of non-whitespace characters, in order
RECURSIVE SplitFrom(_, _)
SplitFrom(s, i) ==
    Let({j \in i..Len(s) : Chr(s, j) \notin SpaceSet}, LAMBDA b :
        IF b = {} THEN << >>
        ELSE Let(RunEnd(s, Min(b), SpaceSet), LAMBDA e :
                 <<SubSeq(s, Min(b), e)>> \o SplitFrom(s, e + 1)))

Split(s) == SplitFrom(s, 1)

\* str.split(sep) for a one-character sep: the fields between separators, empty ones kept
RECURSIVE SplitOnFrom(_, _, _)
SplitOnFrom(s, sep, i) ==
    Let(RunEnd(s, i, {sep}), LAMBDA e :
        IF e >= Len(s) THEN <<SubSeq(s, i, Len(s))>>
        ELSE <<SubSeq(s, i, e)>> \o SplitOnFrom(s, sep, e + 2))

SplitOn(s, sep) == SplitOnFrom(s, sep, 1)

\* sep.join(words)
RECURSIVE Join(_, _)
Join(words, sep) ==
    IF words = << >> THEN ""
    ELSE IF Len(words) = 1 THEN words[1]
    ELSE words[1] \o sep \o Join(Tail(words), sep)

\* str.title(): a letter is upper-cased after a non-letter and lower-cased after a letter
RECURSIVE TitleRange(_, _, _)
TitleRange(s, lo, hi) ==
    IF lo > hi THEN ""
    ELSE IF lo = hi
    THEN LET c == Chr(s, lo)
             afterLetter == lo > 1 /\ Chr(s, lo - 1) \in AlphaSet
         IN  IF afterLetter THEN LowerChar(c) ELSE UpperChar(c)
    ELSE LET mid == (lo + hi) \div 2
         IN  TitleRange(s, lo, mid) \o TitleRange(s, mid + 1, hi)

Title(s) == TitleRange(s, 1, Len(s))

\* str.isalpha()
IsAlpha(s) == s # "" /\ \A i \in 1..Len(s) : Chr(s, i) \in AlphaSet

\* any(ord(char) > 127 for char in s): the model's texts mark such characters by "~"
HasNonAscii(s) == Contains(s, "~")

(***************************************************************************)
(* Python's re module, for the patterns the program uses.  A pattern is a  *)
(* sequence of nodes; Match is the backtracking matcher, which tries       *)
(* alternatives left to right, a greedy repeat from its longest run down   *)
(* and a lazy repeat from its shortest run up, so the match it returns is  *)
(* the one re returns.  ic is the re.IGNORECASE flag.                      *)
(***************************************************************************)
\* a literal text
L(s) == [t |-> "lit", s |-> s]
\* a repeated character class: [c]{min,max}, max = -1 for no upper limit
Rep(c, min, max, lazy) == [t |-> "cls", c |-> c, neg |-> FALSE, min |-> min, max |-> max, lazy |-> lazy]
\* a repeated negated class: [^c]{min,max}
NotRep(c, min, max, lazy) == [t |-> "cls", c |-> c, neg |-> TRUE, min |-> min, max |-> max, lazy |-> lazy]
\* (?:a1|a2|...), each alternative a sequence of nodes
Alt(a) == [t |-> "alt", a |-> a]
\* the alternatives of a list of literal texts
Ls(ss) == [i \in 1..Len(ss) |-> <<L(ss[i])>>]
\* (?:seq)?
Opt(seq) == Alt(<<seq, << >> >>)
\* the start and the end of capture group g
Open(g) == [t |-> "open", g |-> g]
Close(g) == [t |-> "close", g |-> g]
\* ^, $ and \b
Bol == [t |-> "bol"]
Eol == [t |-> "eol"]
Wb == [t |-> "wb"]
\* \s+ and \s*
WS1 == Rep(SpaceSet, 1, -1, FALSE)
WS0 == Rep(SpaceSet, 0, -1, FALSE)

NoMatch == [ok |-> FALSE]
NoCaps == <<<<0, 0>>, <<0, 0>>>>

LitAt(s, pos, lit, ic) ==
    /\ pos + Len(lit) - 1 <= Len(s)
    /\ LET got == SubSeq(s, pos, pos + Len(lit) - 1)
       IN  IF ic THEN Lower(got) = Lower(lit) ELSE got = lit

InClass(c, n, ic) ==
    LET in == c \in n.c \/ (ic /\ (LowerChar(c) \in n.c \/ UpperChar(c) \in n.c))
    IN  IF n.neg THEN ~in ELSE in

\* the number of characters from pos on that node n can take
ClassRun(s, pos, n, ic) ==
    Min({k \in 0..(Len(s) - pos + 1) :
            pos + k > Len(s) \/ (n.max >= 0 /\ k >= n.max) \/ ~InClass(Chr(s, pos + k), n, ic)})

IsWordAt(s, i) == i >= 1 /\ i <= Len(s) /\ Chr(s, i) \in WordSet

RECURSIVE Match(_, _, _, _, _)
RECURSIVE TryAlts(_, _, _, _, _, _, _)

Match(nodes, s, pos, caps, ic) ==
    IF Len(nodes) = 0 THEN [ok |-> TRUE, end |-> pos, caps |-> caps]
    ELSE LET n == Head(nodes)
             rest == Tail(nodes)
         IN  CASE n.t = "lit" ->
                    IF LitAt(s, pos, n.s, ic)
                    THEN Match(rest, s, pos + Len(n.s), caps, ic)
                    ELSE NoMatch
               [] n.t = "cls" ->
                    \* the repeat takes the first count, in its order of preference
                    \* (shortest first if lazy, longest first if greedy), with which
                    \* the rest of the pattern matches
                    Let({k \in n.min..ClassRun(s, pos, n, ic) :
                            Match(rest, s, pos + k, caps, ic).ok},
                        LAMBDA good :
                            IF good = {} THEN NoMatch
                            ELSE Match(rest, s,
                                       pos + (IF n.lazy THEN Min(good) ELSE Max(good)),
                                       caps, ic))
               [] n.t = "alt" -> TryAlts(n.a, 1, rest, s, pos, caps, ic)
               [] n.t = "open" ->
                    Match(rest, s, pos, [caps EXCEPT ![n.g] = <<pos, pos>>], ic)
               [] n.t = "close" ->
                    Match(rest, s, pos, [caps EXCEPT ![n.g] = <<caps[n.g][1], pos>>], ic)
               [] n.t = "bol" ->
                    IF pos = 1 THEN Match(rest, s, pos, caps, ic) ELSE NoMatch
               [] n.t = "eol" ->
                    IF pos = Len(s) + 1 \/ (pos = Len(s) /\ Chr(s, pos) = "\n")
                    THEN Match(rest, s, pos, caps, ic)
                    ELSE NoMatch
               [] n.t = "wb" ->
                    IF IsWordAt(s, pos - 1) # IsWordAt(s, pos)
                    THEN Match(rest, s, pos, caps, ic)
                    ELSE NoMatch

TryAlts(alts, i, rest, s, pos, caps, ic) ==
    IF i > Len(alts) THEN NoMatch
    ELSE Let(Match(alts[i] \o rest, s, pos, caps, ic), LAMBDA r :
             IF r.ok THEN r ELSE TryAlts(alts, i + 1, rest, s, pos, caps, ic))

\* re.search from position p on: the match at the leftmost start that has one
SearchFrom(nodes, s, p, ic) ==
    Let({q \in p..(Len(s) + 1) : Match(nodes, s, q, NoCaps, ic).ok}, LAMBDA starts :
        IF starts = {} THEN NoMatch
        ELSE Let(Match(nodes, s, Min(starts), NoCaps, ic), LAMBDA r :
                 [ok |-> TRUE, start |-> Min(starts), end |-> r.end, caps |-> r.caps]))

\* re.search(pattern, s)
Search(nodes, s, ic) == SearchFrom(nodes, s, 1, ic)

\* match.group(g)
Group(s, m, g) == SubSeq(s, m.caps[g][1], m.caps[g][2] - 1)

\* re.sub(pattern, '', s): every non-overlapping match, left to right, removed
RECURSIVE ReSubFrom(_, _, _, _)
ReSubFrom(nodes, s, p, ic) ==
    Let(SearchFrom(nodes, s, p, ic), LAMBDA m :
        IF ~m.ok THEN From(s, p)
        ELSE SubSeq(s, p, m.start - 1) \o
             (IF m.end > m.start THEN ReSubFrom(nodes, s, m.end, ic)
              ELSE IF m.start <= Len(s)
                   THEN Chr(s, m.start) \o ReSubFrom(nodes, s, m.start + 1, ic)
                   ELSE ""))

ReSub(nodes, s, ic) == ReSubFrom(nodes, s, 1, ic)

(***************************************************************************)
(* Optional values: Python's None and a present value                      *)
(***************************************************************************)
None == [some |-> FALSE]
Some(v) == [some |-> TRUE, v |-> v]

(***************************************************************************)
(* TourismAgent.extract_place_name                                         *)
(***************************************************************************)
\* [a-zA-Z\s]
AlphaSpace == AlphaSet \cup SpaceSet
\* [,\?\.!]
PunctSet == {",", "?", ".", "!"}
\* .* up to the end of the line
DotStar == NotRep({"\n"}, 0, -1, FALSE)

\* r'[,\?\.!]+$'
trailing_punct == <<Rep(PunctSet, 1, -1, FALSE), Eol>>

\* r'\s+(w1|w2|...).*$'
TrailingWords(ws) == <<WS1, Alt(Ls(ws)), DotStar, Eol>>

\* the loop "for stop in stops: stop_idx = text.find(stop, start_idx) ...": the
\* position of the first stop at or after start_idx, the end of the text if none
EndPos(text, start_idx, stops) ==
    Min({Len(text) + 1} \cup ({Find(text, st, start_idx) : st \in stops} \ {0}))

\* place.title() if place[0].islower() else place
TitleIfLower(place) == IF Chr(place, 1) \in LowerSet THEN Title(place) ELSE place

weather_in_pattern ==
    <<L("weather"), WS1, Alt(Ls(<<"in", "at", "for">>)), WS1,
      Open(1), Rep(AlphaSpace, 1, -1, TRUE), Close(1),
      Alt(<< <<WS1, L("like")>>, <<L("?")>>, <<Eol>> >>
          \o Ls(<<",", ".", "what", "where", "how", "and">>))>>

\* Pattern 1: "weather in [place]"
Pattern1(user_input) ==
    Let(Search(weather_in_pattern, user_input, TRUE), LAMBDA m :
    IF ~m.ok THEN None
    ELSE
    Let(Strip(ReSub(TrailingWords(<<"and", "what", "where", "how", "is", "the", "like", "can",
                                    "i", "visit", "places">>),
                    Strip(Group(user_input, m, 1)), TRUE)), LAMBDA place :
    IF ~(place # "" /\ Len(place) > 2) THEN None
    ELSE
    Let(Find(Lower(user_input), Lower(place), 1), LAMBDA start_idx :
    Let(Strip(ReSub(trailing_punct,
                    Strip(SubSeq(user_input, start_idx, start_idx + Len(place) - 1)), FALSE)),
        LAMBDA extracted :
    IF start_idx # 0 /\ extracted # "" THEN Some(extracted)
    ELSE Some(Title(place))))))

in_pattern ==
    <<Wb, L("in"), WS1,
      Open(1), Rep(AlphaSet, 1, 1, FALSE), Rep(AlphaSpace, 1, -1, TRUE), Close(1),
      Alt(Ls(<<",", "?">>) \o << <<Eol>> >>
          \o Ls(<<"what", "where", "how", "can", "i", "visit", "places", "is", "the",
                  "temperature", "weather", "and">>))>>

\* Pattern 2: "In [Place], what places..."
Pattern2(user_input) ==
    Let(Search(in_pattern, user_input, TRUE), LAMBDA m :
    IF ~m.ok THEN None
    ELSE
    Let(Strip(ReSub(TrailingWords(<<"and", "what", "where", "how", "can", "i", "visit",
                                    "places", "is", "the", "temperature", "weather", "like">>),
                    Strip(Group(user_input, m, 1)), TRUE)), LAMBDA place :
    IF ~(place # "" /\ Len(place) > 2) THEN None
    ELSE
    Let(Find(Lower(user_input), Lower(place), 1), LAMBDA start_idx :
    Let(Strip(ReSub(trailing_punct,
                    Strip(SubSeq(user_input, start_idx,
                                 EndPos(user_input, start_idx, {",", "?", "!", "."}) - 1)),
                    FALSE)),
        LAMBDA extracted :
    IF start_idx # 0 /\ extracted # "" THEN Some(extracted)
    ELSE Some(Strip(place))))))

\* the tail shared by places_in_pattern and after_for
places_tail ==
    <<WS1, Open(1), Rep(AlphaSpace, 1, -1, TRUE), Close(1),
      Alt(Ls(<<"?">>) \o << <<Eol>> >> \o Ls(<<",", ".", "what", "where", "how", "and">>))>>

places_in_pattern ==
    <<L("places"), WS1, Opt(<<L("to"), WS1, L("visit"), WS1>>),
      Alt(Ls(<<"in", "at", "for", "to">>)
          \o << <<L("i"), WS1, L("can"), WS1, L("go"), WS1, L("to")>> >>)>>
    \o places_tail

after_for ==
    <<L("places"), WS1, Opt(<<L("to"), WS1, L("visit"), WS1>>), L("for")>> \o places_tail

\* Pattern 3: "places to visit in [place]"
Pattern3(user_input) ==
    Let(Search(places_in_pattern, user_input, TRUE), LAMBDA m :
    IF ~m.ok THEN None
    ELSE
    Let(Strip(ReSub(TrailingWords(<<"and", "for", "what", "where", "how", "can", "i", "visit",
                                    "places", "is", "the", "like">>),
                    Strip(Group(user_input, m, 1)), TRUE)), LAMBDA place1 :
    Let(IF Lower(place1) = "for"
        THEN Let(Search(after_for, user_input, TRUE), LAMBDA m2 :
                 IF m2.ok
                 THEN Strip(ReSub(TrailingWords(<<"and", "what", "where", "how", "can", "i",
                                                  "visit", "places", "is", "the", "like">>),
                                  Strip(Group(user_input, m2, 1)), TRUE))
                 ELSE place1)
        ELSE place1, LAMBDA place :
    IF ~(place # "" /\ Len(place) > 2) THEN None
    ELSE
    Let(Find(Lower(user_input), Lower(place), 1), LAMBDA start_idx :
    Let(Strip(ReSub(trailing_punct,
                    Strip(SubSeq(user_input, start_idx,
                                 EndPos(user_input, start_idx, {",", "?", "!", "."}) - 1)),
                    FALSE)),
        LAMBDA extracted :
    IF start_idx # 0 /\ extracted # "" THEN Some(extracted)
    ELSE Some(Title(place)))))))

\* the elements of a sequence, as a set
Range(seq) == {seq[i] : i \in 1..Len(seq)}

\* the longest prefix of words with no word in stops ("for word in words: ... else: break")
RECURSIVE TakeUntilStop(_, _)
TakeUntilStop(words, stops) ==
    IF words = << >> \/ Head(words) \in stops THEN << >>
    ELSE <<Head(words)>> \o TakeUntilStop(Tail(words), stops)

\* [w for w in words if w.lower() in keep]
RECURSIVE KeepLowerIn(_, _)
KeepLowerIn(words, keep) ==
    IF words = << >> THEN << >>
    ELSE (IF Lower(Head(words)) \in keep THEN <<Head(words)>> ELSE << >>)
         \o KeepLowerIn(Tail(words), keep)

\* the travel phrases of pattern 4, in the order the loop tries them
patterns == <<"going to go to", "going to", "travel to", "trip to">>

\* one round of the loop of pattern 4, for one travel phrase
Pattern4Phrase(user_input, pattern) ==
    Let(Lower(user_input), LAMBDA user_lower :
    Let(Find(user_lower, pattern, 1), LAMBDA at :
    IF at = 0 THEN None
    ELSE
    Let(Strip(ReSub(<<Rep(PunctSet, 1, 1, FALSE), DotStar, Eol>>,
                    Strip(From(user_lower, at + Len(pattern))), FALSE)), LAMBDA place :
    Let(TakeUntilStop(Split(place),
                      {"let's", "let", "plan", "my", "trip", "what", "is", "the",
                       "temperature", "there", "and", "are", "places", "i", "can", "visit",
                       "show", "me", "like"}), LAMBDA filtered_words :
    IF filtered_words = << >> THEN None
    ELSE
    Let(KeepLowerIn(Split(user_input), {Lower(w) : w \in Range(filtered_words)}),
        LAMBDA matched :
    IF matched # << >> THEN Some(Join(matched, " "))
    ELSE Some(Title(Join(filtered_words, " "))))))))

RECURSIVE Pattern4From(_, _)
Pattern4From(user_input, k) ==
    IF k > Len(patterns) THEN None
    ELSE Let(Pattern4Phrase(user_input, patterns[k]), LAMBDA r :
             IF r.some THEN r ELSE Pattern4From(user_input, k + 1))

\* Pattern 4: "going to [place]"
Pattern4(user_input) == Pattern4From(user_input, 1)

temp_of_pattern ==
    <<L("temperature"), WS1, Alt(Ls(<<"of", "in", "at">>)), WS1,
      Open(1), Rep(AlphaSpace, 1, -1, TRUE), Close(1),
      Alt(<< <<WS1, L("and")>>, <<WS1, L("n"), WS1>>, <<WS1, L("places")>>,
             <<L("?")>>, <<Eol>>, <<L(",")>>, <<L(".")>> >>)>>

\* Pattern 5: "temperature of [place]"
Pattern5(user_input) ==
    Let(Search(temp_of_pattern, user_input, TRUE), LAMBDA m :
    IF ~m.ok THEN None
    ELSE
    Let(Strip(ReSub(TrailingWords(<<"and", "n", "places", "visit", "there", "to", "the">>),
                    Strip(Group(user_input, m, 1)), TRUE)), LAMBDA place :
    IF ~(place # "" /\ Len(place) > 2) THEN None
    ELSE
    Let(Lower(user_input), LAMBDA original_lower :
    Let(Find(original_lower, Lower(place), 1), LAMBDA start_idx :
    Let(Strip(SubSeq(user_input, start_idx,
                     EndPos(original_lower, start_idx,
                            {" and", " n ", " places", " visit", " there"}) - 1)),
        LAMBDA extracted :
    IF start_idx # 0 /\ extracted # "" THEN Some(extracted)
    ELSE Some(Title(place)))))))

\* r'(?:temperat?u?r?e?|weather|places|visit|attractions|tourist)', as alternatives
keywords_pattern ==
    << <<L("tempera"), Rep({"t"}, 0, 1, FALSE), Rep({"u"}, 0, 1, FALSE),
         Rep({"r"}, 0, 1, FALSE), Rep({"e"}, 0, 1, FALSE)>> >>
    \o Ls(<<"weather", "places", "visit", "attractions", "tourist">>)

simple_pattern ==
    <<Bol, Open(1), Rep(AlphaSet, 1, 1, FALSE), Rep(AlphaSpace, 1, -1, TRUE), Close(1), WS1,
      Alt(<< <<Alt(keywords_pattern)>>, <<WS1, L("n"), WS1>> >>)>>

keyword_match ==
    <<WS1, Alt(keywords_pattern \o << <<WS1, L("n"), WS1>>, <<WS1, L("and"), WS1>> >>)>>

\* Pattern 6: place name with keyword ("dubai temperature")
Pattern6(user_input) ==
    Let(Search(simple_pattern, user_input, TRUE), LAMBDA m :
    IF ~m.ok THEN None
    ELSE
    Let(Strip(Group(user_input, m, 1)), LAMBDA place :
    IF ~(place # "" /\ Len(place) > 2) THEN None
    ELSE
    Let(Lower(user_input), LAMBDA original_lower :
    Let(Find(original_lower, Lower(place), 1), LAMBDA start_idx :
    Let(Search(keyword_match, From(original_lower, start_idx), TRUE), LAMBDA km :
    Let(IF km.ok
        THEN Strip(SubSeq(user_input, start_idx, start_idx + km.start - 2))
        ELSE Strip(SubSeq(user_input, start_idx, start_idx + Len(place) - 1)),
        LAMBDA extracted :
    IF start_idx # 0 /\ extracted # "" THEN Some(extracted)
    ELSE Some(Title(place))))))))

\* the list common_words of patterns 7 and 8
common_words ==
    {"what", "where", "how", "when", "why", "the", "a", "an", "is", "are", "can", "i", "more"}

\* Pattern 7: just a place name with optional punctuation ("dubai?")
Pattern7(user_input) ==
    Let(Split(user_input), LAMBDA words :
    IF ~(Len(words) = 1 \/ (Len(words) = 2 /\
                            Lower(words[2]) \in {"temperature", "weather", "places", "?"}))
    THEN None
    ELSE
    Let(Strip(ReSub(trailing_punct, words[1], FALSE)), LAMBDA place :
    IF place # "" /\ Len(place) > 2 /\ Chr(place, 1) \in AlphaSet
       /\ Lower(place) \notin common_words
    THEN Some(TitleIfLower(place))
    ELSE None))

question_pattern ==
    <<Bol, Open(1), Rep(AlphaSet, 1, 1, FALSE), Rep(AlphaSpace, 1, -1, TRUE), Close(1),
      Alt(Ls(<<"?", "!">>) \o << <<Eol>> >>)>>

\* Pattern 8: place name followed by a question mark ("dubai?")
Pattern8(user_input) ==
    Let(Search(question_pattern, user_input, TRUE), LAMBDA m :
    IF ~(m.ok /\ Len(Split(user_input)) <= 2) THEN None
    ELSE
    Let(Strip(ReSub(trailing_punct, Strip(Group(user_input, m, 1)), FALSE)), LAMBDA place :
    IF place # "" /\ Len(place) > 2 /\ Lower(place) \notin common_words
    THEN Some(TitleIfLower(place))
    ELSE None))

stop_words_lower ==
    {"what", "is", "the", "weather", "in", "at", "for", "like", "places", "to", "visit", "can",
     "i", "go", "temperature", "more", "and", "n", "there", "also"}

\* the loop of pattern 9 from word k on, capitalized_words being what it has collected
RECURSIVE Pattern9Loop(_, _, _)
Pattern9Loop(words, k, capitalized_words) ==
    IF k > Len(words) THEN capitalized_words
    ELSE LET word == words[k]
             found == capitalized_words # << >>
         IN  IF Lower(word) \in stop_words_lower
             THEN IF found THEN capitalized_words
                  ELSE Pattern9Loop(words, k + 1, capitalized_words)
             ELSE IF Chr(word, 1) \in UpperSet /\ IsAlpha(word)
             THEN Pattern9Loop(words, k + 1, Append(capitalized_words, word))
             ELSE IF found /\ IsAlpha(word)
             THEN Pattern9Loop(words, k + 1, Append(capitalized_words, word))
             ELSE IF found THEN capitalized_words
             ELSE Pattern9Loop(words, k + 1, capitalized_words)

\* Pattern 9: capitalized words
Pattern9(user_input) ==
    Let(Pattern9Loop(Split(user_input), 1, << >>), LAMBDA capitalized_words :
        IF capitalized_words # << >> THEN Some(Join(capitalized_words, " ")) ELSE None)

\* the loop of pattern 10 from word k on
RECURSIVE Pattern10Loop(_, _)
Pattern10Loop(words, k) ==
    IF k > Len(words) THEN None
    ELSE Let(Strip(ReSub(trailing_punct, words[k], FALSE)), LAMBDA cleaned :
             IF Len(cleaned) >= 3 /\ Chr(cleaned, 1) \in AlphaSet
                /\ Lower(cleaned) \notin (common_words \cup {"temperature", "weather", "places",
                                                            "visit", "and", "n", "there", "also"})
             THEN Some(TitleIfLower(cleaned))
             ELSE Pattern10Loop(words, k + 1))

\* Pattern 10: last resort, any word that looks like a place name
Pattern10(user_input) == Pattern10Loop(Split(user_input), 1)

\* the strategies in the order extract_place_name tries them
Strategy(k, user_input) ==
    CASE k = 1 -> Pattern1(user_input)
      [] k = 2 -> Pattern2(user_input)
      [] k = 3 -> Pattern3(user_input)
      [] k = 4 -> Pattern4(user_input)
      [] k = 5 -> Pattern5(user_input)
      [] k = 6 -> Pattern6(user_input)
      [] k = 7 -> Pattern7(user_input)
      [] k = 8 -> Pattern8(user_input)
      [] k = 9 -> Pattern9(user_input)
      [] k = 10 -> Pattern10(user_input)

\* the cascade with the later strategy winning over the earlier one
RECURSIVE ExtractLastFrom(_, _)
ExtractLastFrom(user_input, k) ==
    IF k > 10 THEN None
    ELSE Let(ExtractLastFrom(user_input, k + 1), LAMBDA r :
             IF r.some THEN r ELSE Strategy(k, user_input))

RECURSIVE ExtractFrom(_, _)
ExtractFrom(user_input, k) ==
    IF k > 10 THEN None
    ELSE Let(Strategy(k, user_input), LAMBDA r :
             IF r.some THEN r ELSE ExtractFrom(user_input, k + 1))

\* extract_place_name without its patterns 1 and 2
extract_place_name_from_pattern_3(user_input) == ExtractFrom(user_input, 3)

extract_place_name(user_input) == ExtractFrom(user_input, 1)

(***************************************************************************)
(* TourismAgent.determine_intent, extract_place_detail_query, is_greeting, *)
(* is_goodbye                                                              *)
(***************************************************************************)
\* any(keyword in text for keyword in keywords)
AnyIn(keywords, text) == \E keyword \in keywords : Contains(text, keyword)

place_detail_keywords ==
    {"tell me about", "information about", "details about", "what is", "tell me more",
     "about", "info"}
timing_keywords ==
    {"timing", "hours", "open", "closed", "schedule", "when", "time to visit",
     "visiting hours", "opening hours"}
weather_keywords ==
    {"temperature", "temperture", "temprature", "temp", "weather", "rain", "forecast",
     "climate", "hot", "cold", "degrees"}
places_keywords ==
    {"places", "visit", "attractions", "tourist", "go", "see", "sightseeing", "sights",
     "landmarks", "what to see", "where to go"}
places_phrases ==
    {"what places", "where to", "places to", "places can", "places i", "attractions"}
trip_words == {"going", "trip", "travel", "plan"}

\* determine_intent without its default for a query that names no intent
determine_intent_no_default(user_input) ==
    LET user_lower == Lower(user_input)
    IN  [weather |-> AnyIn(weather_keywords, user_lower),
         places |-> AnyIn(places_keywords, user_lower) \/ AnyIn(places_phrases, user_lower),
         timing |-> AnyIn(timing_keywords, user_lower),
         place_detail |-> AnyIn(place_detail_keywords, user_lower)]

determine_intent(user_input) ==
    LET user_lower == Lower(user_input)
        wants_place_detail == AnyIn(place_detail_keywords, user_lower)
        wants_timing == AnyIn(timing_keywords, user_lower)
        wants_weather == AnyIn(weather_keywords, user_lower)
        wants_places == AnyIn(places_keywords, user_lower) \/ AnyIn(places_phrases, user_lower)
        \* "if not wants_weather and not wants_places and not wants_place_detail"
        unset == ~wants_weather /\ ~wants_places /\ ~wants_place_detail
    IN  [weather |-> IF unset THEN AnyIn(trip_words, user_lower) ELSE wants_weather,
         places |-> IF ~unset THEN wants_places
                    ELSE IF AnyIn(trip_words, user_lower) THEN TRUE
                    ELSE IF Len(Split(user_lower)) <= 3 THEN TRUE
                    ELSE TRUE,
         timing |-> wants_timing,
         place_detail |-> wants_place_detail]

\* (.+?)(?:\?|$|\.|,|please), the tail of every place-detail pattern
detail_tail ==
    <<Open(1), NotRep({"\n"}, 1, -1, TRUE), Close(1),
      Alt(Ls(<<"?">>) \o << <<Eol>> >> \o Ls(<<".", ",", "please">>))>>

\* the list "patterns" of extract_place_detail_query, in order
detail_patterns ==
    << <<L("tell me "), Opt(<<L("more ")>>), L("about ")>> \o detail_tail,
       <<L("information about ")>> \o detail_tail,
       <<L("details about ")>> \o detail_tail,
       <<L("what is ")>> \o detail_tail,
       <<L("tell me ")>> \o detail_tail,
       <<L("about ")>> \o detail_tail,
       <<L("info ")>> \o detail_tail >>

\* one round of the loop over detail_patterns
DetailPattern(user_input, pattern) ==
    Let(Search(pattern, user_input, TRUE), LAMBDA m :
    IF ~m.ok THEN None
    ELSE
    Let(Strip(ReSub(TrailingWords(<<"please", "thanks", "thank you", "tell me", "more",
                                    "info">>),
                    Strip(Group(user_input, m, 1)), TRUE)), LAMBDA place :
    IF place # "" /\ Len(place) > 2 THEN Some(place) ELSE None))

RECURSIVE DetailFrom(_, _)
DetailFrom(user_input, k) ==
    IF k > Len(detail_patterns) THEN None
    ELSE Let(DetailPattern(user_input, detail_patterns[k]), LAMBDA r :
             IF r.some THEN r ELSE DetailFrom(user_input, k + 1))

\* [w for w in words if w and w[0].isupper()]
RECURSIVE KeepCapitalized(_)
KeepCapitalized(words) ==
    IF words = << >> THEN << >>
    ELSE (IF Chr(Head(words), 1) \in UpperSet THEN <<Head(words)>> ELSE << >>)
         \o KeepCapitalized(Tail(words))

extract_place_detail_query(user_input) ==
    Let(DetailFrom(user_input, 1), LAMBDA r :
    IF r.some THEN r
    ELSE
    Let(Split(user_input), LAMBDA words :
    Let(KeepCapitalized(words), LAMBDA capitalized_words :
    IF Len(words) >= 2 /\ Len(words) <= 5 /\ capitalized_words # << >>
    THEN Some(Join(capitalized_words, " "))
    ELSE None)))

\* self.greetings
greetings ==
    {"hi", "hello", "hey", "greetings", "good morning", "good afternoon", "good evening"}

is_greeting(user_input) ==
    LET user_lower == Strip(Lower(user_input))
    IN  /\ ~AnyIn({"weather", "temperature", "places", "visit", "attractions", "in ", "at "},
                  user_lower)
        /\ \E greeting \in greetings :
              greeting = user_lower \/ StartsWith(user_lower, greeting \o " ")

goodbye_phrases ==
    {"bye", "goodbye", "see you", "see ya", "farewell", "exit", "quit", "close", "thanks",
     "thank you", "thank", "thx", "appreciate it", "that's all", "that's it", "done",
     "finished"}

is_goodbye(user_input) ==
    LET user_lower == Strip(Lower(user_input))
    IN  \E phrase \in goodbye_phrases :
           \/ phrase = user_lower
           \/ StartsWith(user_lower, phrase \o " ")
           \/ EndsWith(user_lower, " " \o phrase)

(***************************************************************************)
(* TourismAgent.check_if_state_or_region.  A geocoding result is a record  *)
(* [type, class, display_name, name, importance, lat]; importance is in    *)
(* hundredths (75 stands for 0.75); a field the provider left out holds    *)
(* the default the code's .get gives it.                                   *)
(***************************************************************************)
region_major_cities ==
    {"london", "paris", "tokyo", "baku", "istanbul", "moscow", "cairo",
     "delhi", "mumbai", "bangalore", "kolkata", "chennai", "hyderabad",
     "new york", "los angeles", "chicago", "houston", "phoenix",
     "sydney", "melbourne", "toronto", "vancouver", "montreal",
     "berlin", "madrid", "rome", "amsterdam", "vienna", "prague",
     "dubai", "riyadh", "doha", "singapore", "hong kong", "seoul",
     "beijing", "shanghai", "bangkok", "jakarta", "manila",
     "mexico city", "sao paulo", "rio de janeiro", "buenos aires",
     "lagos", "nairobi", "johannesburg", "cape town"}

city_indicators == {"city", "town", "village", "municipality", "suburb"}

\* "for pattern in city_patterns: if pattern in display_name and
\*  display_name.index(pattern) < 50: return False"
CityPatternRule(place_lower, display_name) ==
    \E pattern \in {place_lower \o ",", ", " \o place_lower \o ","} :
        /\ Contains(display_name, pattern)
        /\ Find(display_name, pattern, 1) - 1 < 50

\* the country rule
CountryRule(place_lower, place_type, place_class, display_name, importance) ==
    /\ place_class = "boundary" /\ place_type = "administrative"
    /\ Contains(display_name, "country") /\ Contains(display_name, place_lower)
    /\ importance > 80

\* the state/province rule without its bounds on the importance
StateRuleAnyImportance(place_lower, place_type, place_class, display_name, importance) ==
    /\ Contains(place_type, "administrative") /\ place_class = "administrative"
    /\ LET parts == SplitOn(display_name, ",")
       IN  /\ Len(parts) > 1
           /\ ~Contains(Lower(Strip(parts[1])), place_lower)
           /\ ~\E i \in 1..Len(parts) : Contains(parts[i], "city") \/ Contains(parts[i], "town")

\* the state/province rule
StateRule(place_lower, place_type, place_class, display_name, importance) ==
    /\ Contains(place_type, "administrative") /\ place_class = "administrative"
    /\ 40 <= importance /\ importance <= 70
    /\ LET parts == SplitOn(display_name, ",")
       IN  /\ Len(parts) > 1
           /\ ~Contains(Lower(Strip(parts[1])), place_lower)
           /\ ~\E i \in 1..Len(parts) : Contains(parts[i], "city") \/ Contains(parts[i], "town")

\* check_if_state_or_region without its whitelist of major cities
check_if_state_or_region_no_whitelist(place_name, geocoding_result) ==
    LET place_type == Lower(geocoding_result.type)
        place_class == Lower(geocoding_result.class)
        display_name == Lower(geocoding_result.display_name)
        place_lower == Lower(place_name)
        importance == geocoding_result.importance
    IN  IF CityPatternRule(place_lower, display_name) THEN FALSE
        ELSE IF (Contains(display_name, "city") \/ Contains(display_name, "town"))
                /\ Contains(display_name, place_lower) THEN FALSE
        ELSE IF \E indicator \in city_indicators :
                   Contains(place_type, indicator) \/ Contains(place_class, indicator) THEN FALSE
        ELSE IF CountryRule(place_lower, place_type, place_class, display_name, importance)
        THEN TRUE
        ELSE IF StateRule(place_lower, place_type, place_class, display_name, importance)
        THEN TRUE
        ELSE FALSE

check_if_state_or_region(place_name, geocoding_result) ==
    LET place_type == Lower(geocoding_result.type)
        place_class == Lower(geocoding_result.class)
        display_name == Lower(geocoding_result.display_name)
        place_lower == Lower(place_name)
        importance == geocoding_result.importance
    IN  IF Strip(place_lower) \in region_major_cities THEN FALSE
        ELSE IF CityPatternRule(place_lower, display_name) THEN FALSE
        ELSE IF (Contains(display_name, "city") \/ Contains(display_name, "town"))
                /\ Contains(display_name, place_lower) THEN FALSE
        ELSE IF \E indicator \in city_indicators :
                   Contains(place_type, indicator) \/ Contains(place_class, indicator) THEN FALSE
        ELSE IF CountryRule(place_lower, place_type, place_class, display_name, importance)
        THEN TRUE
        ELSE StateRule(place_lower, place_type, place_class, display_name, importance)

(***************************************************************************)
(* PlacesAgent.get_coordinates_with_details: the choice among the geocode  *)
(* provider's candidates.  Scores are in hundredths, as importance is.     *)
(***************************************************************************)
scoring_major_cities == {"london", "paris", "tokyo", "baku", "istanbul", "moscow", "cairo"}

\* the score with every bonus added whose condition holds
ScoreSummed(place_name, location) ==
    LET place_lower == Strip(Lower(place_name))
        place_type == Lower(location.type)
        place_class == Lower(location.class)
        importance == location.importance
        display_name == Lower(location.display_name)
        boundary == IF place_class = "boundary" /\ place_type = "administrative"
                    THEN IF place_lower \in scoring_major_cities THEN 90
                         ELSE IF importance > 60 THEN 80
                         ELSE IF Contains(display_name, "city") \/ Contains(display_name, "town")
                         THEN 70
                         ELSE IF importance > 40 THEN 60
                         ELSE 20
                    ELSE 0
        first_part == Strip(SplitOn(display_name, ",")[1])
        early == IF display_name # "" /\ Contains(display_name, place_lower)
                    /\ Contains(first_part, place_lower)
                 THEN 15 ELSE 0
    IN  (IF place_type \in {"city", "town"} THEN 100 ELSE 0) * 100
        + (IF place_type = "village" THEN 50 ELSE 0) * 100
        + (IF place_class = "place" THEN 75 ELSE 0) * 100
        + boundary * 100 + importance * 10 + early * 100

\* the score of one candidate, the body of the loop "for location in data"
Score(place_name, location) ==
    LET place_lower == Strip(Lower(place_name))
        place_type == Lower(location.type)
        place_class == Lower(location.class)
        importance == location.importance
        display_name == Lower(location.display_name)
        kind == IF place_type \in {"city", "town"} THEN 100
                ELSE IF place_type = "village" THEN 50
                ELSE IF place_class = "place" THEN 75
                ELSE IF place_class = "boundary" /\ place_type = "administrative"
                THEN IF place_lower \in scoring_major_cities THEN 90
                     ELSE IF importance > 60 THEN 80
                     ELSE IF Contains(display_name, "city") \/ Contains(display_name, "town")
                     THEN 70
                     ELSE IF importance > 40 THEN 60
                     ELSE 20
                ELSE 0
        first_part == Strip(SplitOn(display_name, ",")[1])
        early == IF display_name # "" /\ Contains(display_name, place_lower)
                    /\ Contains(first_part, place_lower)
                 THEN 15 ELSE 0
    IN  kind * 100 + importance * 10 + early * 100

\* the loop with "if score >= best_score": the last of the best candidates wins
RECURSIVE BestFromLastWins(_, _, _, _, _)
BestFromLastWins(place_name, data, k, best, best_score) ==
    IF k > Len(data) THEN best
    ELSE Let(Score(place_name, data[k]), LAMBDA score :
             IF score >= best_score
             THEN BestFromLastWins(place_name, data, k + 1, k, score)
             ELSE BestFromLastWins(place_name, data, k + 1, best, best_score))

\* the loop "if score > best_score: best_location = location", from candidate k on;
\* best is the index of best_location (0 for None)
RECURSIVE BestFrom(_, _, _, _, _)
BestFrom(place_name, data, k, best, best_score) ==
    IF k > Len(data) THEN best
    ELSE Let(Score(place_name, data[k]), LAMBDA score :
             IF score > best_score
             THEN BestFrom(place_name, data, k + 1, k, score)
             ELSE BestFrom(place_name, data, k + 1, best, best_score))

\* the index in data of the location the code selects
BestIndex(place_name, data) ==
    Let(BestFrom(place_name, data, 1, 0, -100), LAMBDA best : IF best = 0 THEN 1 ELSE best)

\* the value the code leaves in location["name"]; a key that is absent and a key
\* that holds "" are the same here
FixName(location) ==
    LET first_part == Strip(SplitOn(location.display_name, ",")[1])
    IN  IF location.name_en_tag # "" THEN location.name_en_tag
        ELSE IF location.name # "" /\ ~HasNonAscii(location.name) THEN location.name
        ELSE IF location.display_name # "" /\ HasNonAscii(first_part)
        THEN IF location.name_en # "" /\ ~HasNonAscii(location.name_en) THEN location.name_en
             ELSE location.name
        ELSE location.name

\* answer is what the geocode provider did: [ok |-> FALSE] for a transport failure,
\* [ok |-> TRUE, data |-> <<location, ...>>] for a reply
get_coordinates_with_details(place_name, answer) ==
    IF ~answer.ok THEN None
    ELSE IF Len(answer.data) = 0 THEN None
    ELSE Let(answer.data[BestIndex(place_name, answer.data)], LAMBDA location :
             Some([coordinates |-> <<location.lat, location.lon>>,
                   info |-> [location EXCEPT !.name = FixName(location)]]))

(***************************************************************************)
(* PlacesAgent._normalize_name, _is_similar, _refine_places,               *)
(* get_tourist_attractions, format_places_response                         *)
(***************************************************************************)
max_places == 5

\* strip, lower-case, then every run of whitespace becomes one space: the words of
\* the lower-cased name joined by single spaces
_normalize_name(name) == Join(Split(Lower(name)), " ")

\* [w for w in words if w not in drop]
RECURSIVE Without(_, _)
Without(words, drop) ==
    IF words = << >> THEN << >>
    ELSE (IF Head(words) \in drop THEN << >> ELSE <<Head(words)>>) \o Without(Tail(words), drop)

_is_similar(name1, name2) ==
    Let(_normalize_name(name1), LAMBDA norm1 :
    Let(_normalize_name(name2), LAMBDA norm2 :
    Let(Without(Split(norm1), {"the", "a", "an", "of", "in", "at"}), LAMBDA words1 :
    Let(Without(Split(norm2), {"the", "a", "an", "of", "in", "at"}), LAMBDA words2 :
    LET matches == Cardinality({i \in 1..Len(words1) : words1[i] \in Range(words2)})
        least == IF Len(words1) < Len(words2) THEN Len(words1) ELSE Len(words2)
    IN  \/ norm1 = norm2
        \/ /\ Contains(norm2, norm1) \/ Contains(norm1, norm2)
           /\ Len(norm1) > 3 /\ Len(norm2) > 3
        \/ /\ Len(words1) > 0 /\ Len(words2) > 0
           \* matches >= min(len(words1), len(words2)) * 0.7
           /\ matches * 10 >= least * 7))))

\* seen_places is the dict as the sequence of its <<key, value>> items, in insertion
\* order: the index of the first item whose value is similar to place, 0 if none
FirstSimilar(seen_places, place) ==
    Let({i \in 1..Len(seen_places) : _is_similar(place, seen_places[i][2])},
        LAMBDA hits : IF hits = {} THEN 0 ELSE Min(hits))

\* [p for p in refined if p != gone]
RECURSIVE Remove(_, _)
Remove(refined, gone) ==
    IF refined = << >> THEN << >>
    ELSE (IF Head(refined) = gone THEN << >> ELSE <<Head(refined)>>) \o Remove(Tail(refined), gone)

\* del seen_places[key]
DictDel(seen_places, i) ==
    SubSeq(seen_places, 1, i - 1) \o SubSeq(seen_places, i + 1, Len(seen_places))

\* seen_places[key] = value: an existing key keeps its place in the order
DictSet(seen_places, key, value) ==
    IF \E i \in 1..Len(seen_places) : seen_places[i][1] = key
    THEN [i \in 1..Len(seen_places) |->
             IF seen_places[i][1] = key THEN <<key, value>> ELSE seen_places[i]]
    ELSE Append(seen_places, <<key, value>>)

\* the loop "for place in places" from place k on
RECURSIVE RefineLoop(_, _, _, _)
RefineLoop(places, k, refined, seen_places) ==
    IF k > Len(places) THEN refined
    ELSE
    Let(places[k], LAMBDA place :
    Let(FirstSimilar(seen_places, place), LAMBDA dup :
    IF dup = 0
    THEN RefineLoop(places, k + 1, Append(refined, place),
                    DictSet(seen_places, _normalize_name(place), place))
    ELSE IF Len(place) > Len(seen_places[dup][2])
    THEN RefineLoop(places, k + 1, Append(Remove(refined, seen_places[dup][2]), place),
                    DictSet(DictDel(seen_places, dup), _normalize_name(place), place))
    ELSE RefineLoop(places, k + 1, refined, seen_places)))

\* refined[:n]
Take(seq, n) == SubSeq(seq, 1, IF Len(seq) < n THEN Len(seq) ELSE n)

_refine_places(places) ==
    IF Len(places) = 0 THEN << >> ELSE Take(RefineLoop(places, 1, << >>, << >>), max_places)

\* [name.strip() for name in names if name and name.strip()]
RECURSIVE StripNames(_)
StripNames(names) ==
    IF names = << >> THEN << >>
    ELSE Let(Strip(Head(names)), LAMBDA name :
             (IF name # "" THEN <<name>> ELSE << >>) \o StripNames(Tail(names)))

\* answer is what the places provider did: [ok |-> FALSE] for a transport failure,
\* [ok |-> TRUE, names |-> <<name, ...>>] for the names of the elements of a reply
get_tourist_attractions(answer) ==
    IF ~answer.ok THEN << >>
    ELSE Take(_refine_places(StripNames(answer.names)), max_places)

\* the list "greetings" of format_places_response
places_greetings(place_name) ==
    <<"Here are some amazing places in " \o place_name \o " you shouldn't miss!",
      "Your adventure in " \o place_name \o " could start at these gems:",
      "Discover these must-see spots in " \o place_name \o ":",
      "Ready to explore " \o place_name \o "? Check out these places:",
      "Here are five fantastic places to visit in " \o place_name \o ":">>

RECURSIVE Bullets(_)
Bullets(places) ==
    IF places = << >> THEN "" ELSE "- " \o Head(places) \o "\n" \o Bullets(Tail(places))

RECURSIVE Reverse(_)
Reverse(seq) == IF seq = << >> THEN << >> ELSE Append(Reverse(Tail(seq)), Head(seq))

\* format_places_response with the places listed in an order that is drawn too
format_places_response_shuffled(places, place_name, choice) ==
    IF Len(places) = 0
    THEN "Unfortunately, I couldn't find many tourist attractions listed for " \o place_name
         \o ". This might be a remote location or the area may have limited tourist data available."
    ELSE Strip(places_greetings(place_name)[choice] \o "\n\n"
               \o Bullets(IF choice % 2 = 0 THEN Reverse(places) ELSE places)
               \o "\n[bulb] Tip: Click on any place to learn more about it!")

\* choice is the index random.choice draws
format_places_response(places, place_name, choice) ==
    IF Len(places) = 0
    THEN "Unfortunately, I couldn't find many tourist attractions listed for " \o place_name
         \o ". This might be a remote location or the area may have limited tourist data available."
    ELSE Strip(places_greetings(place_name)[choice] \o "\n\n" \o Bullets(places)
               \o "\n[bulb] Tip: Click on any place to learn more about it!")

\* the fields of the dictionary get_place_details returns; a field that is None or
\* absent holds ""
format_place_details_response(details) ==
    LET name == details.name
        head == "**" \o name \o "**\n\n"
        parts == SplitOn(details.display_name, ",")
        location == Strip(parts[1])
                    \o (IF Len(parts) > 1 THEN ", " \o Strip(parts[2]) ELSE "")
        response ==
            head
            \o (IF details.description # "" THEN details.description \o "\n\n" ELSE "")
            \o (IF details.display_name # "" THEN "[pin] Location: " \o location \o "\n\n" ELSE "")
            \o (IF details.opening_hours # ""
                THEN "[clock] Opening Hours: " \o details.opening_hours \o "\n\n" ELSE "")
            \o (IF details.fee # "" THEN "[money] Admission: " \o details.fee \o "\n\n" ELSE "")
            \o (IF details.heritage # ""
                THEN "[monument] Heritage Status: " \o details.heritage \o "\n\n"
                ELSE IF details.historic # ""
                THEN "[monument] Historic Site: " \o details.historic \o "\n\n"
                ELSE "")
            \o (IF details.website # "" THEN "[globe] Website: " \o details.website \o "\n\n" ELSE "")
    IN  IF response = head
        THEN Strip(response \o name \o " is a notable tourist attraction"
                   \o (IF details.display_name # ""
                       THEN " located in " \o Strip(parts[1]) ELSE "")
                   \o ".")
        ELSE Strip(response)

(***************************************************************************)
(* WeatherAgent.get_weather, format_weather_response.  A JSON value of the *)
(* provider's reply is [kind |-> "absent"] (no such key), [kind |-> "null"]*)
(* or [kind |-> "num", v |-> n]; a temperature is in tenths of a degree.   *)
(* The value of a Python expression is Value(v) or Raised(exception).      *)
(***************************************************************************)
Absent == [kind |-> "absent"]
Null == [kind |-> "null"]
Num(n) == [kind |-> "num", v |-> n]
Str(t) == [kind |-> "str", v |-> t]

Value(v) == [raised |-> FALSE, v |-> v]
Raised(e) == [raised |-> TRUE, exc |-> e]

\* answer is what the weather provider did: [ok |-> FALSE] for a transport failure,
\* [ok |-> TRUE, current |-> None] for a reply without "current",
\* [ok |-> TRUE, current |-> Some([temperature_2m |-> .., precipitation_probability |-> ..])]
get_weather(answer) ==
    IF ~answer.ok THEN None
    ELSE IF ~answer.current.some THEN None
    ELSE LET current == answer.current.v
         IN  Some([temperature |-> IF current.temperature_2m.kind = "absent" THEN Str("N/A")
                                   ELSE current.temperature_2m,
                   precipitation_probability |->
                       IF current.precipitation_probability.kind = "absent" THEN Num(0)
                       ELSE current.precipitation_probability,
                   success |-> TRUE])

\* round() of a number given in tenths: to the nearest integer, a half to the even one
RoundTenths(t) ==
    LET q == t \div 10
        r == t % 10
    IN  IF r < 5 THEN q
        ELSE IF r > 5 THEN q + 1
        ELSE IF q % 2 = 0 THEN q ELSE q + 1

format_weather_response(weather_data, place_name) ==
    LET temp == weather_data.temperature
        rain_chance == weather_data.precipitation_probability
        temp_str == IF temp.kind = "null" THEN "N/A"
                    \* the source has the two characters A-circumflex and degree here
                    ELSE ToString(RoundTenths(temp.v)) \o "[A^][deg]C"
    IN  IF ~weather_data.success
        THEN Value("Unable to fetch weather information for " \o place_name \o ".")
        \* round() of a str or of None raises TypeError
        ELSE IF temp.kind = "str" THEN Raised("TypeError")
        ELSE IF rain_chance.kind # "num" THEN Raised("TypeError")
        ELSE Value("In " \o place_name \o " it's currently " \o temp_str
                   \o " with a chance of " \o ToString(rain_chance.v) \o "% to rain.")

(***************************************************************************)
(* TourismAgent.process_query: its texts and the steps between its calls   *)
(* of the providers                                                        *)
(***************************************************************************)
GoodbyeText ==
    "[wave] Goodbye! It was great helping you plan your trip. Safe travels and enjoy your journey! [globe][plane]"

\* "Good morning" if hour < 12 else "Good afternoon" if hour < 18 else "Good evening"
time_greeting(hour) ==
    IF hour < 12 THEN "Good morning" ELSE IF hour < 18 THEN "Good afternoon" ELSE "Good evening"

GreetingText(hour) ==
    time_greeting(hour) \o "! [wave] I'm your travel planning assistant!\n\n"
    \o "I can help you with:\n"
    \o "- [sun] Current weather and forecasts\n"
    \o "- [pin] Must-see attractions and hidden gems\n\n"
    \o "Where would you like to explore? Try asking:\n"
    \o "- 'What's the weather in Bangalore?'\n"
    \o "- 'What places can I visit in Paris?'\n"
    \o "- 'Tell me about Tokyo - weather and places!'"

ShortText ==
    "I need more information to help you. Please tell me:\n"
    \o "- A place name (e.g., 'Bangalore', 'Paris', 'New York')\n"
    \o "- What you'd like to know (weather, places to visit, or both)"

TimingText ==
    "I understand you're asking about visiting hours or timings. Unfortunately, the data source I use (Overpass API) doesn't provide timing information for tourist attractions.\n\n"
    \o "For visiting hours, I recommend:\n"
    \o "- Checking the official website of the attraction\n"
    \o "- Using Google Maps or similar services\n"
    \o "- Contacting local tourism offices\n\n"
    \o "I can still help you with weather information and suggest places to visit!"

NoDetailsText(place_detail_name) ==
    "Sorry, detailed information about '" \o place_detail_name
    \o "' is not currently available. Please try asking about a different place or check the official website for more information."

WhichPlaceText ==
    "I'd be happy to provide information about a specific place! Please tell me which tourist attraction you'd like to know more about. For example: 'Tell me about Qutub Minar' or 'What is the Eiffel Tower?'"

NoPlaceNameText ==
    "I couldn't find a valid place name in your query. Please provide a place name like:\n"
    \o "- 'Dubai'\n"
    \o "- 'Dubai temperature'\n"
    \o "- 'What's the weather in Paris?'\n"
    \o "- 'In Bangalore, what places can I visit?'\n"
    \o "- 'Show me places to visit in Tokyo'"

\* UnknownPlaceText with the name as the lookup normalises it
UnknownPlaceTextLower(place_name) ==
    "I don't know if '" \o Lower(place_name) \o "' exists. Could you please provide a valid place name?"

UnknownPlaceText(place_name) ==
    "I don't know if '" \o place_name \o "' exists. Could you please provide a valid place name?"

SpecifyCityText(proper_place_name) ==
    "I found '" \o proper_place_name
    \o "', but it appears to be a country, state, or region rather than a specific city.\n\n"
    \o "Please specify a city within " \o proper_place_name
    \o " for more accurate weather and attraction information.\n\n"
    \o "For example:\n"
    \o "- If you meant Karnataka, try 'Bangalore' or 'Mysore'\n"
    \o "- If you meant California, try 'Los Angeles' or 'San Francisco'\n"
    \o "- If you meant India, try 'Mumbai' or 'Delhi'"

EnterCityText(proper_place_name) ==
    "I found '" \o proper_place_name
    \o "', but it appears to be a country, state, or region rather than a specific city.\n\n"
    \o "Please enter a city name instead. For example, if you're looking for places in "
    \o proper_place_name \o ", try:\n"
    \o "- 'Mumbai' or 'Delhi' (for India)\n"
    \o "- 'Kolkata' or 'Darjeeling' (for West Bengal)\n"
    \o "- 'Los Angeles' or 'San Francisco' (for California)"

NoAttractionDataText(proper_place_name) ==
    "Sorry, detailed tourist attraction data is not currently available for "
    \o proper_place_name \o ". Please try searching for a nearby major city or a different location."

UnableText(proper_place_name) ==
    "Unable to fetch information for " \o proper_place_name \o ". Please try rephrasing your query."

\* the first part of display_name, in order, that is not empty and is ASCII; "" if none
RECURSIVE FirstAsciiPart(_)
FirstAsciiPart(parts) ==
    IF parts = << >> THEN ""
    ELSE Let(Strip(Head(parts)), LAMBDA part :
             IF part # "" /\ ~HasNonAscii(part) THEN part ELSE FirstAsciiPart(Tail(parts)))

\* r'\s*\([^)]+\)\s*$'
paren_suffix == <<WS0, L("("), NotRep({")"}, 1, -1, FALSE), L(")"), WS0, Eol>>

\* the name process_query gives the resolved location
ProperPlaceName(place_name, geocoding_info) ==
    Let(IF geocoding_info.name_en_tag # "" THEN geocoding_info.name_en_tag
        ELSE IF geocoding_info.name_en # "" THEN geocoding_info.name_en
        ELSE geocoding_info.name, LAMBDA p0 :
    Let(IF p0 # "" /\ HasNonAscii(p0) /\ geocoding_info.display_name # ""
        THEN Let(FirstAsciiPart(SplitOn(geocoding_info.display_name, ",")),
                 LAMBDA part : IF part # "" THEN part ELSE p0)
        ELSE p0, LAMBDA p1 :
    Let(IF p1 # "" THEN Strip(ReSub(paren_suffix, p1, FALSE)) ELSE p1, LAMBDA p2 :
    IF p2 = "" \/ Len(p2) < 2 THEN Title(place_name) ELSE p2)))

region_keywords == {"state", "province", "region", "country", "republic", "kingdom"}
common_countries ==
    {"india", "nepal", "china", "usa", "united states", "uk", "united kingdom", "france",
     "germany", "japan", "australia", "canada", "brazil", "russia"}
common_states ==
    {"west bengal", "karnataka", "maharashtra", "tamil nadu", "gujarat", "rajasthan", "punjab",
     "california", "texas", "new york", "florida"}

\* the re-check of process_query when no attraction was found: is_likely_region
is_likely_region(proper_place_name, geocoding_info) ==
    LET importance == geocoding_info.importance
        place_type == Lower(geocoding_info.type)
        place_class == Lower(geocoding_info.class)
        display_name == Lower(geocoding_info.display_name)
        place_lower == Lower(proper_place_name)
        parts == SplitOn(display_name, ",")
        first_part == Lower(Strip(parts[1]))
        last_part == Lower(Strip(parts[Len(parts)]))
        holders == {i \in 1..Len(parts) : Contains(Lower(parts[i]), place_lower)}
        found_in_first == holders # {} /\ Min(holders) = 1
        method1 == /\ place_class = "boundary" /\ place_type = "administrative"
                   /\ importance >= 40
                   /\ Len(parts) > 1
                   /\ ~Contains(first_part, place_lower)
        method2 == /\ AnyIn(region_keywords, display_name)
                   /\ Len(parts) > 1
                   /\ ~Contains(first_part, place_lower)
                   /\ \E i \in 2..Len(parts) :
                         /\ Contains(Lower(parts[i]), place_lower)
                         /\ AnyIn(region_keywords, Lower(parts[i]))
        method3 == /\ importance >= 50 /\ place_class = "boundary"
                   /\ ~Contains(display_name, "city") /\ ~Contains(display_name, "town")
                   /\ Len(parts) >= 2
                   /\ ~found_in_first
        method4 == /\ importance > 70
                   /\ place_class = "boundary" /\ place_type = "administrative"
                   /\ Len(parts) >= 2
                   /\ (Contains(last_part, place_lower) \/ importance > 80)
    IN  \/ method1 \/ method2 \/ method3 \/ method4
        \/ place_lower \in common_countries \/ place_lower \in common_states

\* the end of process_query: the texts collected in responses are combined
Combine(responses, proper_place_name) ==
    IF Len(responses) = 0 THEN UnableText(proper_place_name)
    ELSE IF Len(responses) = 2
    THEN LET first_is_weather == Contains(responses[1], "currently")
             weather_resp == IF first_is_weather THEN responses[1] ELSE responses[2]
             places_resp == IF first_is_weather THEN responses[2] ELSE responses[1]
         IN  IF Contains(weather_resp, "currently") /\ Contains(places_resp, "places you can go")
             THEN weather_resp \o ". And "
                  \o (IF StartsWith(places_resp, "In ")
                      THEN "in " \o From(places_resp, 4) ELSE places_resp)
             ELSE Join(responses, " ")
    ELSE Join(responses, " ")

(***************************************************************************)
(* The inputs: the queries a caller submits, the hours of the clock, and   *)
(* what each provider may answer                                           *)
(***************************************************************************)
Queries ==
    {"bye", "hi bye", "hello", "hi", "ok",
     "when is Louvre open", "info about when to visit",
     "Tell me about Qutub Minar", "about", "the",
     "What's the weather in Bangalore?", "In Tokyo, what places can I visit?",
     "Paris weather and places", "I'm going to go to Bangalore, let's plan my trip.",
     "Karnataka", "  dubai  "}

Hours == {0, 11, 12, 17, 18, 23}

Failed == [ok |-> FALSE]

\* one candidate of a geocode reply
Loc(type, class, importance, display_name, name) ==
    [type |-> type, class |-> class, importance |-> importance,
     display_name |-> display_name, name |-> name, name_en_tag |-> "", name_en |-> "",
     lat |-> "12.97", lon |-> "77.59"]

Bengaluru == Loc("city", "place", 70, "Bengaluru, Karnataka, India", "Bengaluru")
Karnataka == Loc("administrative", "boundary", 75, "Karnataka, India", "Karnataka")
Bavaria == Loc("administrative", "administrative", 55, "Bayern, Deutschland", "Bavaria")
Wales == Loc("administrative", "boundary", 85, "Wales country, United Kingdom", "Wales")
DubaiUrban == Loc("city", "place", 65, "~~~, Dubai, United Arab Emirates", "Dubai (urban)")
Nameless == Loc("hamlet", "place", 20, "", "")
NewYork == Loc("administrative", "boundary", 75, "New York, United States", "New York")

GeocodeAnswers ==
    {Failed} \cup
    {[ok |-> TRUE, data |-> d] :
        d \in {<< >>, <<Bengaluru>>, <<Karnataka>>, <<Bavaria>>, <<Wales>>, <<DubaiUrban>>,
               <<Nameless>>, <<Karnataka, Bengaluru>>, <<NewYork>>}}

Cur(temperature_2m, precipitation_probability) ==
    Some([temperature_2m |-> temperature_2m,
          precipitation_probability |-> precipitation_probability])

WeatherAnswers ==
    {Failed, [ok |-> TRUE, current |-> None]} \cup
    {[ok |-> TRUE, current |-> c] :
        c \in {Cur(Num(184), Num(20)), Cur(Num(-25), Absent), Cur(Absent, Num(20)),
               Cur(Null, Num(0)), Cur(Num(245), Null)}}

\* the names of the elements of a places reply are a prefix of SampleNames: none,
\* one, half of MaxNames, MaxNames
MaxNames == 8
SampleNames ==
    <<"Lalbagh", "  ", "Bangalore Palace", "The Bangalore Palace", "Cubbon Park",
      "ISKCON Temple", "Tipu Sultan's Palace", "Ulsoor Lake", "Bull Temple">>

PlacesAnswers ==
    {Failed} \cup {[ok |-> TRUE, names |-> Take(SampleNames, n)] : n \in {0, 1, MaxNames \div 2, MaxNames}}

\* get_place_details gives None or the dictionary of one attraction
QutubMinar ==
    [name |-> "Qutub Minar", display_name |-> "Qutub Minar, Mehrauli, Delhi, India",
     description |-> "A 73-metre minaret", opening_hours |-> "07:00-17:00", fee |-> "yes",
     heritage |-> "1", historic |-> "monument", website |-> "https://example.org"]
Bare ==
    [name |-> "Qutub Minar", display_name |-> "", description |-> "", opening_hours |-> "",
     fee |-> "", heritage |-> "", historic |-> "", website |-> ""]

DetailAnswers == {None, Some(QutubMinar), Some(Bare)}

\* the index random.choice draws in format_places_response
Choices == 1..Len(places_greetings(""))

(***************************************************************************)
(* What process_query computes from the query alone, lines 551-609, for    *)
(* every query a caller submits                                            *)
(***************************************************************************)
Understand(q) ==
    [is_goodbye |-> is_goodbye(q),
     is_greeting |-> is_greeting(q),
     intent |-> determine_intent(q),
     place_detail_name |-> extract_place_detail_query(q),
     place_name |-> extract_place_name(q)]

\* the table of Understand on the queries qs
RECURSIVE UnderstoodOn(_)
UnderstoodOn(qs) ==
    LET q == CHOOSE q \in qs : TRUE
    IN  IF qs = {q} THEN q :> Understand(q)
        ELSE (q :> Understand(q)) @@ UnderstoodOn(qs \ {q})

Understood == UnderstoodOn({Strip(raw) : raw \in Queries})

\* the table of get_tourist_attractions on the answers as
RECURSIVE AttractionsOn(_)
AttractionsOn(as) ==
    LET a == CHOOSE a \in as : TRUE
    IN  IF as = {a} THEN a :> get_tourist_attractions(a)
        ELSE (a :> get_tourist_attractions(a)) @@ AttractionsOn(as \ {a})

Attractions == AttractionsOn(PlacesAnswers)

\* how a call of process_query ended
NoResult == [kind |-> "none", text |-> "", exc |-> "", branch |-> ""]
Returned(text, branch) == [kind |-> "returned", text |-> text, exc |-> "", branch |-> branch]
RaisedIn(exc, branch) == [kind |-> "raised", text |-> "", exc |-> exc, branch |-> branch]

NoIntent == [weather |-> FALSE, places |-> FALSE, timing |-> FALSE, place_detail |-> FALSE]
NoInfo == Loc("", "", 0, "", "")

\* the local variables of process_query before it has assigned them
NoFrame ==
    [user_input |-> "", place_detail_name |-> "", place_name |-> "",
     geocoding_info |-> NoInfo, proper_place_name |-> "", is_state_or_region |-> FALSE,
     intent |-> NoIntent, responses |-> << >>]

VARIABLES
    pc,         \* where process_query waits: "idle", the provider it called, "done"
    frame,      \* the local variables of process_query
    calls,      \* the provider calls made so far: <<[provider, answer], ...>>
    result,     \* how the call ended
    first,      \* the earlier call of the same query, if this one repeats it
    parked,     \* the other call of process_query in flight, when two threads run it
    generator   \* the random generator of the process, which every call draws from

vars == <<pc, frame, calls, result, first, parked, generator>>

\* a generator nobody has looked at
NoGenerator == [tape |-> << >>, drawn |-> 0]

Init ==
    /\ pc = "idle"
    /\ frame = NoFrame
    /\ calls = << >>
    /\ result = NoResult
    /\ first = None
    /\ parked = None
    /\ generator = NoGenerator

\* Start with the greeting looked for before the goodbye
StartGreetingFirst(query, hour) ==
    Let(Understood[Strip(query)], LAMBDA k :
    LET stop(text, branch) ==
            [pc |-> "done", result |-> Returned(text, branch),
             place_detail_name |-> "", place_name |-> ""]
    IN  IF k.is_greeting THEN stop(GreetingText(hour), "greeting")
        ELSE IF k.is_goodbye THEN stop(GoodbyeText, "goodbye")
        ELSE IF Len(Strip(query)) < 3 THEN stop(ShortText, "short")
        ELSE IF k.intent.timing THEN stop(TimingText, "timing")
        ELSE IF k.intent.place_detail
        THEN IF k.place_detail_name.some
             THEN [pc |-> "get_place_details", result |-> NoResult,
                   place_detail_name |-> k.place_detail_name.v, place_name |-> ""]
             ELSE stop(WhichPlaceText, "place_detail")
        ELSE IF ~k.place_name.some THEN stop(NoPlaceNameText, "no_place_name")
        ELSE [pc |-> "get_coordinates_with_details", result |-> NoResult,
              place_detail_name |-> "", place_name |-> k.place_name.v])

\* Start with the place-detail intent looked at before the timing intent
StartDetailFirst(query, hour) ==
    Let(Understood[Strip(query)], LAMBDA k :
    LET stop(text, branch) ==
            [pc |-> "done", result |-> Returned(text, branch),
             place_detail_name |-> "", place_name |-> ""]
    IN  IF k.is_goodbye THEN stop(GoodbyeText, "goodbye")
        ELSE IF k.is_greeting THEN stop(GreetingText(hour), "greeting")
        ELSE IF Len(Strip(query)) < 3 THEN stop(ShortText, "short")
        ELSE IF k.intent.place_detail
        THEN IF k.place_detail_name.some
             THEN [pc |-> "get_place_details", result |-> NoResult,
                   place_detail_name |-> k.place_detail_name.v, place_name |-> ""]
             ELSE stop(WhichPlaceText, "place_detail")
        ELSE IF k.intent.timing THEN stop(TimingText, "timing")
        ELSE IF ~k.place_name.some THEN stop(NoPlaceNameText, "no_place_name")
        ELSE [pc |-> "get_coordinates_with_details", result |-> NoResult,
              place_detail_name |-> "", place_name |-> k.place_name.v])

\* process_query from its entry to its first provider call or its return,
\* lines 551-612
Start(query, hour) ==
    Let(Understood[Strip(query)], LAMBDA k :
    LET stop(text, branch) ==
            [pc |-> "done", result |-> Returned(text, branch),
             place_detail_name |-> "", place_name |-> ""]
    IN  IF k.is_goodbye THEN stop(GoodbyeText, "goodbye")
        ELSE IF k.is_greeting THEN stop(GreetingText(hour), "greeting")
        ELSE IF Len(Strip(query)) < 3 THEN stop(ShortText, "short")
        ELSE IF k.intent.timing THEN stop(TimingText, "timing")
        ELSE IF k.intent.place_detail
        THEN IF k.place_detail_name.some
             THEN [pc |-> "get_place_details", result |-> NoResult,
                   place_detail_name |-> k.place_detail_name.v, place_name |-> ""]
             ELSE stop(WhichPlaceText, "place_detail")
        ELSE IF ~k.place_name.some THEN stop(NoPlaceNameText, "no_place_name")
        ELSE [pc |-> "get_coordinates_with_details", result |-> NoResult,
              place_detail_name |-> "", place_name |-> k.place_name.v])

\* the entry of process_query
Enter(query, hour) ==
    Let(Start(query, hour), LAMBDA s :
        /\ pc' = s.pc
        /\ result' = s.result
        /\ frame' = [NoFrame EXCEPT !.user_input = Strip(query),
                                    !.place_detail_name = s.place_detail_name,
                                    !.place_name = s.place_name]
        /\ calls' = << >>)

\* a caller submits a query
Submit(query, hour) ==
    /\ pc = "idle"
    /\ first' = None
    /\ Enter(query, hour)
    /\ UNCHANGED <<parked, generator>>

\* a provider's answer to the next call: any answer, but the answer of the earlier
\* call when this call of process_query repeats an earlier one
Answers(provider, answers) ==
    IF first.some /\ Len(calls) < Len(first.v.calls)
    THEN {a \in answers : first.v.calls[Len(calls) + 1] = [provider |-> provider, answer |-> a]}
    ELSE answers

Called(provider, answer) == Append(calls, [provider |-> provider, answer |-> answer])

\* process_query returns text
Return(text, branch) ==
    /\ pc' = "done"
    /\ result' = Returned(text, branch)

\* process_query goes on to call provider
Call(provider) ==
    /\ pc' = provider
    /\ UNCHANGED result

\* get_place_details returns: lines 592-596
PlaceDetailsReturn(details) ==
    /\ pc = "get_place_details"
    /\ calls' = Called("get_place_details", details)
    /\ IF details.some
       THEN Return(format_place_details_response(details.v), "place_detail")
       ELSE Return(NoDetailsText(frame.place_detail_name), "place_detail")
    /\ UNCHANGED <<frame, first, parked, generator>>

\* lines 770-786
Compose(all_responses, name) == Return(Combine(all_responses, name), "fetch")

\* CoordinatesReturn without the return at lines 653-658: a region goes on to the
\* weather and the attractions as a city does
CoordinatesReturnNoClarification(answer) ==
    /\ pc = "get_coordinates_with_details"
    /\ calls' = Called("get_coordinates_with_details", answer)
    /\ Let(get_coordinates_with_details(frame.place_name, answer), LAMBDA geocoding_data :
       IF ~geocoding_data.some
       THEN /\ Return(UnknownPlaceText(frame.place_name), "geocode_failure")
            /\ UNCHANGED frame
       ELSE
       Let(ProperPlaceName(frame.place_name, geocoding_data.v.info), LAMBDA proper :
       Let(check_if_state_or_region(proper, geocoding_data.v.info), LAMBDA region :
       Let(Understood[frame.user_input].intent, LAMBDA wanted :
           /\ frame' = [frame EXCEPT !.geocoding_info = geocoding_data.v.info,
                                     !.proper_place_name = proper,
                                     !.is_state_or_region = region,
                                     !.intent = wanted]
           /\ IF wanted.weather THEN Call("get_weather")
              ELSE IF wanted.places THEN Call("get_tourist_attractions")
              ELSE Compose(<< >>, proper)))))
    /\ UNCHANGED <<first, parked, generator>>

\* get_coordinates_with_details returns: lines 612-674
CoordinatesReturn(answer) ==
    /\ pc = "get_coordinates_with_details"
    /\ calls' = Called("get_coordinates_with_details", answer)
    /\ Let(get_coordinates_with_details(frame.place_name, answer), LAMBDA geocoding_data :
       IF ~geocoding_data.some
       THEN /\ Return(UnknownPlaceText(frame.place_name), "geocode_failure")
            /\ UNCHANGED frame
       ELSE
       Let(ProperPlaceName(frame.place_name, geocoding_data.v.info), LAMBDA proper :
       Let(check_if_state_or_region(proper, geocoding_data.v.info), LAMBDA region :
       IF region
       THEN /\ Return(SpecifyCityText(proper), "region")
            /\ frame' = [frame EXCEPT !.geocoding_info = geocoding_data.v.info,
                                      !.proper_place_name = proper,
                                      !.is_state_or_region = region]
       ELSE
       \* determine_intent(user_input) once more
       Let(Understood[frame.user_input].intent, LAMBDA wanted :
           /\ frame' = [frame EXCEPT !.geocoding_info = geocoding_data.v.info,
                                     !.proper_place_name = proper,
                                     !.is_state_or_region = region,
                                     !.intent = wanted]
           /\ IF wanted.weather THEN Call("get_weather")
              ELSE IF wanted.places THEN Call("get_tourist_attractions")
              ELSE Compose(<< >>, proper)))))
    /\ UNCHANGED <<first, parked, generator>>

\* WeatherReturn with one more call of the weather provider after a failed one
WeatherReturnRetry(answer) ==
    /\ pc = "get_weather"
    /\ calls' = Called("get_weather", answer)
    /\ Let(get_weather(answer), LAMBDA weather_data :
       Let(IF weather_data.some
           THEN format_weather_response(weather_data.v, frame.proper_place_name)
           ELSE Value(""), LAMBDA weather_response :
       IF weather_response.raised
       THEN /\ pc' = "done"
            /\ result' = RaisedIn(weather_response.exc, "fetch")
            /\ UNCHANGED frame
       ELSE IF ~weather_data.some /\ Len(calls) < 2
       THEN /\ Call("get_weather")
            /\ UNCHANGED frame
       ELSE
       Let(IF weather_data.some
           THEN Append(frame.responses, weather_response.v) ELSE frame.responses,
           LAMBDA collected :
           /\ frame' = [frame EXCEPT !.responses = collected]
           /\ IF frame.intent.places THEN Call("get_tourist_attractions")
              ELSE Compose(collected, frame.proper_place_name))))
    /\ UNCHANGED <<first, parked, generator>>

\* get_weather returns: lines 667-674
WeatherReturn(answer) ==
    /\ pc = "get_weather"
    /\ calls' = Called("get_weather", answer)
    /\ Let(get_weather(answer), LAMBDA weather_data :
       Let(IF weather_data.some
           THEN format_weather_response(weather_data.v, frame.proper_place_name)
           ELSE Value(""), LAMBDA weather_response :
       IF weather_response.raised
       THEN /\ pc' = "done"
            /\ result' = RaisedIn(weather_response.exc, "fetch")
            /\ UNCHANGED frame
       ELSE
       Let(IF weather_data.some
           THEN Append(frame.responses, weather_response.v) ELSE frame.responses,
           LAMBDA collected :
           /\ frame' = [frame EXCEPT !.responses = collected]
           /\ IF frame.intent.places THEN Call("get_tourist_attractions")
              ELSE Compose(collected, frame.proper_place_name))))
    /\ UNCHANGED <<first, parked, generator>>

\* ListPlaces with the re-check of the region made before the attractions are looked at
ListPlacesRecheckingFirst(answer, choice) ==
    /\ pc = "get_tourist_attractions"
    /\ calls' = Called("get_tourist_attractions", answer)
    /\ Let(Attractions[answer], LAMBDA places :
       IF \/ is_likely_region(frame.proper_place_name, frame.geocoding_info)
          \/ frame.is_state_or_region
       THEN /\ UNCHANGED frame
            /\ Return(EnterCityText(frame.proper_place_name), "fetch")
       ELSE IF Len(places) > 0
       THEN Let(Append(frame.responses,
                       format_places_response(places, frame.proper_place_name, choice)),
                LAMBDA collected :
                    /\ frame' = [frame EXCEPT !.responses = collected]
                    /\ Compose(collected, frame.proper_place_name))
       ELSE /\ UNCHANGED frame
            /\ Return(NoAttractionDataText(frame.proper_place_name), "fetch"))

\* get_tourist_attractions returns, and random.choice gives choice: lines 675-786
ListPlaces(answer, choice) ==
    /\ pc = "get_tourist_attractions"
    /\ calls' = Called("get_tourist_attractions", answer)
    /\ Let(Attractions[answer], LAMBDA places :
       IF Len(places) > 0
       THEN Let(Append(frame.responses,
                       format_places_response(places, frame.proper_place_name, choice)),
                LAMBDA collected :
                    /\ frame' = [frame EXCEPT !.responses = collected]
                    /\ Compose(collected, frame.proper_place_name))
       ELSE /\ UNCHANGED frame
            /\ IF \/ is_likely_region(frame.proper_place_name, frame.geocoding_info)
                  \/ frame.is_state_or_region
               THEN Return(EnterCityText(frame.proper_place_name), "fetch")
               ELSE Return(NoAttractionDataText(frame.proper_place_name), "fetch"))

\* get_tourist_attractions returns; what random.choice gives is anybody's guess
AttractionsReturn(answer, choice) ==
    /\ ListPlaces(answer, choice)
    /\ UNCHANGED <<first, parked, generator>>

\* the caller submits the same query once more, and the providers will answer as
\* they did
Repeat(hour) ==
    /\ pc = "done"
    /\ ~first.some
    /\ first' = Some([user_input |-> frame.user_input, calls |-> calls, result |-> result])
    /\ Enter(frame.user_input, hour)
    /\ UNCHANGED <<parked, generator>>

\* the caller has the response; the agent waits for the next query
Finish ==
    /\ pc = "done"
    /\ pc' = "idle"
    /\ frame' = NoFrame
    /\ calls' = << >>
    /\ result' = NoResult
    /\ first' = None
    /\ UNCHANGED <<parked, generator>>

Next ==
    \/ \E query \in Queries, hour \in Hours : Submit(query, hour)
    \/ \E details \in Answers("get_place_details", DetailAnswers) : PlaceDetailsReturn(details)
    \/ \E answer \in Answers("get_coordinates_with_details", GeocodeAnswers) :
          CoordinatesReturn(answer)
    \/ \E answer \in Answers("get_weather", WeatherAnswers) : WeatherReturn(answer)
    \/ \E answer \in Answers("get_tourist_attractions", PlacesAnswers), choice \in Choices :
          AttractionsReturn(answer, choice)
    \/ \E hour \in Hours : Repeat(hour)
    \/ Finish

Spec == Init /\ [][Next]_vars

(***************************************************************************)
(* What a run of process_query shows: its query as understood, the         *)
(* providers it has called, and what they gave it                          *)
(***************************************************************************)
Providers ==
    {"get_place_details", "get_coordinates_with_details", "get_weather", "get_tourist_attractions"}

\* a run is in hand: process_query has been entered and the caller has not yet
\* taken its response
Running == pc # "idle"

\* the flags and the names the run's query gives
Known == Understood[frame.user_input]

\* the providers called so far, the one now awaited included
CalledSoFar ==
    [i \in 1..Len(calls) |-> calls[i].provider] \o (IF pc \in Providers THEN <<pc>> ELSE << >>)

\* the geocode provider has answered
Geocoded == Len(calls) >= 1 /\ calls[1].provider = "get_coordinates_with_details"

\* what get_coordinates_with_details then returned
Resolved == get_coordinates_with_details(frame.place_name, calls[1].answer)

\* the name of the resolved location
ResolvedName == ProperPlaceName(frame.place_name, Resolved.v.info)

\* the run has called the weather and the places provider, and both have answered
BothAnswered ==
    /\ Len(calls) = 3
    /\ calls[2].provider = "get_weather"
    /\ calls[3].provider = "get_tourist_attractions"

WeatherData == get_weather(calls[2].answer)
WeatherText == format_weather_response(WeatherData.v, frame.proper_place_name)
Places == Attractions[calls[3].answer]
PlacesText(choice) == format_places_response(Places, frame.proper_place_name, choice)

\* C1: whatever the query and whatever the providers answer, process_query
\* returns a string that is not empty and raises nothing
C1_ReturnsText == pc = "done" => result.kind = "returned" /\ result.text # ""

\* the conditions of the terminal branches in the order of the code, each with
\* the name of its branch
Branches ==
    <<[name |-> "goodbye", holds |-> Known.is_goodbye],
      [name |-> "greeting", holds |-> Known.is_greeting],
      [name |-> "short", holds |-> Len(frame.user_input) < 3],
      [name |-> "timing", holds |-> Known.intent.timing],
      [name |-> "place_detail", holds |-> Known.intent.place_detail],
      [name |-> "no_place_name", holds |-> ~Known.place_name.some],
      [name |-> "geocode_failure", holds |-> ~(Geocoded /\ Resolved.some)],
      [name |-> "region",
       holds |-> Geocoded /\ Resolved.some
                 /\ check_if_state_or_region(ResolvedName, Resolved.v.info)],
      [name |-> "fetch", holds |-> TRUE]>>

FirstBranch == Let(Branches, LAMBDA b : b[Min({i \in 1..Len(b) : b[i].holds})].name)

\* C2: a run ends in the first branch, in the order goodbye, greeting, short query,
\* timing, place detail, no place name, geocode failure, region, fetch, whose
\* condition holds, and the early branches answer with their fixed texts
C2_FirstBranchInOrder ==
    pc = "done" =>
        /\ result.branch = FirstBranch
        /\ result.branch = "goodbye" => result.text = GoodbyeText
        /\ result.branch = "greeting" => \E hour \in Hours : result.text = GreetingText(hour)
        /\ result.branch = "short" => result.text = ShortText
        /\ result.branch = "timing" => result.text = TimingText
        /\ result.branch = "no_place_name" => result.text = NoPlaceNameText

\* a query that is a goodbye and a greeting got the farewell
C2_Witness ==
    /\ pc = "done"
    /\ Known.is_goodbye /\ Known.is_greeting
    /\ result.text = GoodbyeText

\* C3: with both the weather and the places wanted of a city, the weather text is
\* in the response when only the places are missing, and the places text when only
\* the weather is missing
C3_OneDoesNotBlockTheOther ==
    (pc = "done" /\ result.kind = "returned" /\ BothAnswered) =>
        /\ (WeatherData.some /\ Len(Places) = 0) => Contains(result.text, WeatherText.v)
        /\ (~WeatherData.some /\ Len(Places) > 0) =>
               \E choice \in Choices : Contains(result.text, PlacesText(choice))

\* "in " for a leading "In "
LowerIn(text) == IF StartsWith(text, "In ") THEN "in " \o From(text, 4) ELSE text

\* C4: with the weather text and the text of a list of places both there, the
\* response is "<weather text>. And <places text>"
C4_JoinedWithAnd ==
    (pc = "done" /\ result.kind = "returned" /\ BothAnswered
     /\ WeatherData.some /\ Len(Places) > 0) =>
        \E choice \in Choices :
            result.text = WeatherText.v \o ". And " \o LowerIn(PlacesText(choice))

\* the run repeats an earlier one and has ended
Repeated == pc = "done" /\ first.some

\* the run ended with a list of places
Listing ==
    /\ Len(calls) >= 1
    /\ calls[Len(calls)].provider = "get_tourist_attractions"
    /\ Len(Attractions[calls[Len(calls)].answer]) > 0
    /\ result.kind = "returned"

\* a text up to its first empty line, and from there on
Opening(text) == SubSeq(text, 1, Find(text, "\n\n", 1) - 1)
Rest(text) == From(text, Find(text, "\n\n", 1))

\* text opens with one of the openings of format_places_response, after lead
OpensAfter(text, lead) ==
    \E choice \in Choices :
        Opening(text) = lead \o places_greetings(frame.proper_place_name)[choice]

C6_TimingAlone ==
    (Running /\ ~Known.is_goodbye /\ ~Known.is_greeting /\ Len(frame.user_input) >= 3
     /\ Known.intent.timing) =>
        /\ pc = "done"
        /\ result = Returned(TimingText, "timing")
        /\ calls = << >>

\* a query with the timing and the place-detail flag got the not-supported text
C6_Witness ==
    /\ pc = "done"
    /\ Known.intent.timing /\ Known.intent.place_detail
    /\ ~Known.is_goodbye /\ ~Known.is_greeting
    /\ result.text = TimingText
    /\ calls = << >>

Rank(provider) ==
    CASE provider = "get_coordinates_with_details" -> 1
      [] provider = "get_weather" -> 2
      [] provider = "get_tourist_attractions" -> 3
      [] OTHER -> 0

\* C7: geocode, weather and places are each called at most once and in this
\* order, and weather and places only after geocode has returned coordinates
C7_OnceInOrder ==
    /\ \A i, j \in 1..Len(CalledSoFar) :
          (i < j /\ Rank(CalledSoFar[i]) > 0 /\ Rank(CalledSoFar[j]) > 0) =>
              Rank(CalledSoFar[i]) < Rank(CalledSoFar[j])
    /\ \A i \in 1..Len(CalledSoFar) :
          Rank(CalledSoFar[i]) \in {2, 3} => Geocoded /\ i > 1 /\ Resolved.some

\* the weather provider failed and the run went on to the places
C7_Witness ==
    /\ pc = "done"
    /\ BothAnswered
    /\ ~calls[2].answer.ok

\* C8: when check_if_state_or_region says of the resolved location that it is a
\* region, the run ends there with the specify-a-city text, which names the
\* location, and has called neither the weather nor the places provider
C8_RegionClarification ==
    (Geocoded /\ Resolved.some /\ check_if_state_or_region(ResolvedName, Resolved.v.info)) =>
        /\ pc = "done"
        /\ result = Returned(SpecifyCityText(ResolvedName), "region")
        /\ Contains(result.text, "Please specify a city within " \o ResolvedName)
        /\ Len(calls) = 1

\* a query for the weather and the places of a region
C8_Witness ==
    /\ pc = "done"
    /\ Geocoded /\ Resolved.some
    /\ check_if_state_or_region(ResolvedName, Resolved.v.info)
    /\ Known.intent.weather /\ Known.intent.places
    /\ result.branch = "region"

\* C9: when a place name was extracted and the geocode lookup gave nothing, the
\* response has the name in it as it was extracted
C9_NamesTheCandidate ==
    (pc = "done" /\ Geocoded /\ ~Resolved.some) =>
        /\ result.kind = "returned"
        /\ Known.place_name.some
        /\ Contains(result.text, Known.place_name.v)

\* the geocode provider answered with an empty list for a name in capitals
C9_Witness ==
    /\ pc = "done"
    /\ Geocoded
    /\ calls[1].answer.ok /\ calls[1].answer.data = << >>
    /\ Known.place_name.some
    /\ Known.place_name.v # Lower(Known.place_name.v)
    /\ result.branch = "geocode_failure"

\* C10: the geocode result {type administrative, class boundary, importance 0.75,
\* display name "Karnataka, India"} for the place name "Karnataka" is a region
C10_KarnatakaIsARegion ==
    (Running /\ frame.proper_place_name = "Karnataka" /\ frame.geocoding_info = Karnataka) =>
        frame.is_state_or_region


(***************************************************************************)
(* The functions of the agents on their own: a caller draws a function and *)
(* its arguments, the function is applied, and its value is the result     *)
(***************************************************************************)
\* the lists of at most n elements of a set
RECURSIVE ListsOver(_, _)
ListsOver(names, n) ==
    IF n = 0 THEN {<< >>}
    ELSE {<< >>} \cup {<<x>> \o l : x \in names, l \in ListsOver(names, n - 1)}

\* a call that waits to be made
Calling(function, args) == [function |-> function, args |-> args]

\* geocode results a whitelisted name may come with: the first satisfies the
\* state rule, the second the country rule
LondonAsState == Loc("administrative", "administrative", 55, "England, United Kingdom", "London")
LondonAsCountry == Loc("administrative", "boundary", 90, "London country, United Kingdom", "London")

ClassifierNames == {"London", "  london ", "New York", "Karnataka", "Bavaria", "Wales", "Springfield"}
\* results that miss the state rule by one condition: the importance, the comma
EnglandTooImportant ==
    Loc("administrative", "administrative", 85, "England, United Kingdom", "England")
EnglandAlone == Loc("administrative", "administrative", 55, "England", "England")

ClassifierResults ==
    {Bengaluru, Karnataka, Bavaria, Wales, DubaiUrban, Nameless, LondonAsState, LondonAsCountry,
     EnglandTooImportant, EnglandAlone}

ClassifierCalls ==
    {Calling("check_if_state_or_region", <<n, g>>) : n \in ClassifierNames, g \in ClassifierResults}

\* names for _is_similar: with and without stop words, with a token that occurs twice
SimilarNames ==
    {"Park", "Central Park", "The Central Park", "Eiffel Tower", "Tower of the Eiffel",
     "Louvre Museum", "Museum of the Louvre", "City Museum Art Gallery",
     "City Museum of Modern Art", "Bora Bora Lagoon", "Bora Resort", "the"}

SimilarCalls == {Calling("_is_similar", <<a, b>>) : a, b \in SimilarNames}

\* queries for extract_place_name: the queries of the callers, and queries where a
\* pattern matches and its candidate is too short or a common word
ExtractQueries ==
    {Strip(raw) : raw \in Queries} \cup
    {"weather in LA?", "What is the weather in NY and Boston", "dubai?", "the?",
     "places to visit in Rome", "temperature of Delhi and places", "trip to the", "...",
     "trip to LA", "is it OK", "dubai", "Goa trip to goa", "temperature of Delhi?",
     "temperature in Delhi?", "paris weather", "I am going to NY."}

ExtractCalls == {Calling("extract_place_name", <<q>>) : q \in ExtractQueries}

\* candidates of a geocode reply, one for each way the score is made up
LondonOntario == Loc("city", "place", 60, "London, Ontario, Canada", "London")
LondonKentucky == Loc("town", "place", 60, "London, Laurel County, Kentucky", "London")
GreaterLondon == Loc("administrative", "boundary", 85, "Greater London, England", "London")
Springfield == Loc("village", "place", 30, "Springfield, Kent, England", "Springfield")
SpringfieldCity == Loc("administrative", "boundary", 50, "City of Springfield, Illinois", "Springfield")
SpringfieldCounty == Loc("administrative", "boundary", 45, "Springfield County, Ohio", "Springfield")
Kent == Loc("administrative", "boundary", 30, "Kent, England", "Kent")
LondonStation == Loc("station", "railway", 40, "London Bridge, Southwark", "London Bridge")

Candidates ==
    {LondonOntario, LondonKentucky, GreaterLondon, Springfield, SpringfieldCity,
     SpringfieldCounty, Kent, LondonStation, Karnataka, Bavaria, Nameless}

\* the longest geocode reply
MaxCandidates == 2

GeocodeCalls ==
    {Calling("get_coordinates_with_details", <<n, a>>) :
        n \in {"London", "springfield "},
        a \in {Failed} \cup {[ok |-> TRUE, data |-> d] : d \in ListsOver(Candidates, MaxCandidates)}}

\* queries for determine_intent: the queries of the callers, queries with a trip-planning
\* word and with none, and queries with no keyword at all
IntentQueries ==
    {Strip(raw) : raw \in Queries} \cup
    {"I am going to Paris", "going", "my trip to Rome", "travel to Oslo", "Oslo",
     "Oslo in the long winter", "trip to Rome weather", "a plan about Rome",
     "Chicago", "is it cold in Oslo", "temp", "sights of Rome and rain"}

IntentCalls == {Calling("determine_intent", <<q>>) : q \in IntentQueries}

FunctionCalls ==
    ClassifierCalls \cup SimilarCalls \cup ExtractCalls \cup GeocodeCalls \cup IntentCalls

FunctionsInit ==
    /\ pc = "call"
    /\ frame \in FunctionCalls
    /\ calls = << >>
    /\ result = None
    /\ first = None
    /\ parked = None
    /\ generator = NoGenerator

\* the function returns value
Yield(value) ==
    /\ pc' = "done"
    /\ result' = Some(value)
    /\ UNCHANGED <<frame, calls, first, parked, generator>>

Classify ==
    /\ pc = "call" /\ frame.function = "check_if_state_or_region"
    /\ Yield(check_if_state_or_region(frame.args[1], frame.args[2]))

Similar ==
    /\ pc = "call" /\ frame.function = "_is_similar"
    /\ Yield(_is_similar(frame.args[1], frame.args[2]))

Extract ==
    /\ pc = "call" /\ frame.function = "extract_place_name"
    /\ Yield(extract_place_name(frame.args[1]))

Geocode ==
    /\ pc = "call" /\ frame.function = "get_coordinates_with_details"
    /\ Yield(get_coordinates_with_details(frame.args[1], frame.args[2]))

Intent ==
    /\ pc = "call" /\ frame.function = "determine_intent"
    /\ Yield(determine_intent(frame.args[1]))

FunctionsNext ==
    \/ Geocode
    \/ Classify
    \/ Similar
    \/ Extract
    \/ Intent

Functions == FunctionsInit /\ [][FunctionsNext]_vars

Applied(function) == pc = "done" /\ frame.function = function

\* C11: whatever the geocode result says, a place name that is in the whitelist of
\* major cities once lower-cased and trimmed is classified as a city:
\* check_if_state_or_region returns False
C11_WhitelistOverride ==
    Applied("check_if_state_or_region") /\ Strip(Lower(frame.args[1])) \in region_major_cities
        => result = Some(FALSE)

\* a whitelisted name came with a geocode result that the rules after the whitelist
\* would have called a region
C11_Witness ==
    /\ Applied("check_if_state_or_region")
    /\ Strip(Lower(frame.args[1])) \in region_major_cities
    /\ check_if_state_or_region_no_whitelist(frame.args[1], frame.args[2])
    /\ result = Some(FALSE)

\* C14: extract_place_name("What's the weather in Bangalore?") is "Bangalore" and
\* extract_place_name("In Tokyo, what places can I visit?") is "Tokyo"
C14_BangaloreAndTokyo ==
    Applied("extract_place_name") =>
        /\ frame.args[1] = "What's the weather in Bangalore?" => result.v = Some("Bangalore")
        /\ frame.args[1] = "In Tokyo, what places can I visit?" => result.v = Some("Tokyo")

\* the place name of the second query has been extracted
C14_Witness ==
    /\ Applied("extract_place_name")
    /\ frame.args[1] = "In Tokyo, what places can I visit?"
    /\ result.v = Some("Tokyo")

\* the strategies of extract_place_name that produce a candidate for a query
Producing(user_input) == {k \in 1..10 : Strategy(k, user_input).some}

\* C20: extract_place_name returns the candidate of the lowest-numbered of its ten
\* strategies that produces one, whatever the later strategies would produce and
\* whether or not the pattern of an earlier strategy matched without giving a
\* candidate; it returns None if no strategy produces a candidate
C20_LowestProducingStrategy ==
    Applied("extract_place_name") =>
        Let(Producing(frame.args[1]), LAMBDA ks :
            IF ks = {} THEN result.v = None
            ELSE result.v = Strategy(Min(ks), frame.args[1]))

\* the pattern of strategy 1 matched and its candidate was too short, a later
\* strategy gave the result, and a still later one would have given another
C20_Witness ==
    /\ Applied("extract_place_name")
    /\ Search(weather_in_pattern, frame.args[1], TRUE).ok
    /\ ~Strategy(1, frame.args[1]).some
    /\ result.v.some
    /\ \E k \in Producing(frame.args[1]) :
           Strategy(k, frame.args[1]).some /\ Strategy(k, frame.args[1]) # result.v

\* a geocode reply has been looked through for a place name
Scored == Applied("get_coordinates_with_details") /\ frame.args[2].ok

\* the bonus a candidate gets for what kind of place it is: its score, in
\* hundredths, without importance x 10 and without the 15 for the place name in the
\* first comma segment of the display name
KindBonus(place_name, location) ==
    LET first_part == Strip(SplitOn(Lower(location.display_name), ",")[1])
        named == Contains(first_part, Strip(Lower(place_name)))
    IN  Score(place_name, location) - location.importance * 10 - (IF named THEN 1500 ELSE 0)

\* the boundary/administrative bonus, by the first sub-rule that applies: 90 for a
\* major city, 80 for importance above 0.6, 70 for a display name with "city" or
\* "town", 60 for importance above 0.4, and 20
BoundaryBonus(place_name, location) ==
    IF Strip(Lower(place_name)) \in scoring_major_cities THEN 9000
    ELSE IF location.importance > 60 THEN 8000
    ELSE IF \E w \in {"city", "town"} : Contains(Lower(location.display_name), w) THEN 7000
    ELSE IF location.importance > 40 THEN 6000
    ELSE 2000

\* C18 as stated: the score is the sum of every bonus whose condition holds, so a
\* village of class place has 50 + 75 = 125 before importance and name bonus, and a
\* city of class place has 100 + 75
C18_SumOfBonuses ==
    Scored =>
        \A i \in 1..Len(frame.args[2].data) :
            LET location == frame.args[2].data[i]
                bonus == KindBonus(frame.args[1], location)
            IN  /\ location.type = "village" /\ location.class = "place" => bonus = 12500
                /\ location.type \in {"city", "town"} /\ location.class = "place" => bonus = 17500

\* C18 as the code has it: a candidate gets one bonus for its kind, the first that
\* applies of 100 for type city or town, 50 for type village, 75 for class place, the
\* boundary/administrative bonus, and 0; importance x 10 and 15 for the place name
\* are added to it.  A village of class place has 50
C18_FirstBonusThatApplies ==
    Scored =>
        \A i \in 1..Len(frame.args[2].data) :
            LET location == frame.args[2].data[i]
                bonus == KindBonus(frame.args[1], location)
                boundary == location.class = "boundary" /\ location.type = "administrative"
            IN  /\ location.type \in {"city", "town"} => bonus = 10000
                /\ location.type = "village" => bonus = 5000
                /\ location.type \notin {"city", "town", "village"} /\ location.class = "place"
                      => bonus = 7500
                /\ location.type \notin {"city", "town", "village"} /\ location.class # "place"
                      => bonus = IF boundary THEN BoundaryBonus(frame.args[1], location) ELSE 0

\* a village of class place has been scored
C18_Witness ==
    /\ Scored
    /\ \E i \in 1..Len(frame.args[2].data) :
           /\ frame.args[2].data[i].type = "village" /\ frame.args[2].data[i].class = "place"
           /\ KindBonus(frame.args[1], frame.args[2].data[i]) = 5000

\* the candidates of a reply with the maximal score
Best(place_name, data) ==
    {i \in 1..Len(data) :
        \A j \in 1..Len(data) : Score(place_name, data[j]) <= Score(place_name, data[i])}

\* C19: of a non-empty list of candidates get_coordinates_with_details selects the
\* earliest of those with the maximal score, and it returns none for an empty list
C19_EarliestOfTheBest ==
    Scored =>
        LET data == frame.args[2].data
        IN  IF data = << >> THEN result.v = None
            ELSE Let(data[Min(Best(frame.args[1], data))], LAMBDA location :
                     /\ result.v.some
                     /\ result.v.v.info = [location EXCEPT !.name = FixName(location)]
                     /\ result.v.v.coordinates = <<location.lat, location.lon>>)

\* two different candidates have the maximal score, and the earlier one is selected
C19_Witness ==
    /\ Scored
    /\ Len(frame.args[2].data) = 2
    /\ Best(frame.args[1], frame.args[2].data) = {1, 2}
    /\ frame.args[2].data[1] # frame.args[2].data[2]
    /\ result.v.v.info = frame.args[2].data[1]

\* the tokens of a name: its normalized words without the stop words
Tokens(name) == Without(Split(_normalize_name(name)), {"the", "a", "an", "of", "in", "at"})

\* at least 70% of the tokens of fewer occur in the token set of other
MostOccurIn(fewer, other) ==
    Cardinality({i \in 1..Len(fewer) : fewer[i] \in Range(other)}) * 10 >= Len(fewer) * 7

\* neither the exact rule nor the containment rule of _is_similar decides the pair
TokenRuleDecides(name1, name2) ==
    LET norm1 == _normalize_name(name1)
        norm2 == _normalize_name(name2)
    IN  /\ norm1 # norm2
        /\ ~((Contains(norm2, norm1) \/ Contains(norm1, norm2)) /\ Len(norm1) > 3 /\ Len(norm2) > 3)
        /\ Tokens(name1) # << >> /\ Tokens(name2) # << >>

\* C17: where the token rule decides, _is_similar holds exactly when at least 70% of
\* the tokens of the name with fewer tokens occur in the token set of the other name,
\* whichever argument has fewer (either one will do when they have equally many)
C17_TokenRule ==
    Applied("_is_similar") /\ TokenRuleDecides(frame.args[1], frame.args[2]) =>
        LET words1 == Tokens(frame.args[1])
            words2 == Tokens(frame.args[2])
        IN  IF Len(words1) < Len(words2) THEN result.v = MostOccurIn(words1, words2)
            ELSE IF Len(words2) < Len(words1) THEN result.v = MostOccurIn(words2, words1)
            ELSE result.v \in {MostOccurIn(words1, words2), MostOccurIn(words2, words1)}

(***************************************************************************)
(* PlacesAgent._refine_places step by step: the loop "for place in places" *)
(* over a list of raw names, then the return of refined[:max_places]       *)
(***************************************************************************)
\* names that are similar to nothing else here; they fill the list up to the cap
Fillers == <<"Red Fort", "India Gate", "Lotus Temple", "Qutub Minar">>

\* families of raw names, each with names that are similar to one another
NamePools ==
    {{"Central Park", "Park", "The Central Park", "Eiffel Tower"},
     {"Louvre", "Eiffel Tower", "Louvre Museum"},
     {"Art Gallery", "City Museum", "City Museum of Modern Art", "City Museum Art Gallery"}}

\* the longest list drawn from one family
MaxList == 4

\* the lists of raw names: nothing or the fillers, then a list from one family
RawLists ==
    {f \o l : f \in {<< >>, Fillers}, l \in UNION {ListsOver(pool, MaxList) : pool \in NamePools}}

RefineInit ==
    /\ pc = "loop"
    /\ frame \in {[places |-> p, k |-> 1, refined |-> << >>, seen_places |-> << >>] :
                      p \in RawLists}
    /\ calls = << >>
    /\ result = None
    /\ first = None
    /\ parked = None
    /\ generator = NoGenerator

\* the loop has a place to look at
InLoop == pc = "loop" /\ frame.k <= Len(frame.places)
Place == frame.places[frame.k]
\* the index in seen_places of the first name similar to place, 0 if there is none
Dup == FirstSimilar(frame.seen_places, Place)
\* seen_orig, the representative place is similar to
SeenOrig == frame.seen_places[Dup][2]

\* "if not is_duplicate": place is a new representative
Accept ==
    /\ InLoop /\ Dup = 0
    /\ frame' = [frame EXCEPT !.k = @ + 1,
                               !.refined = Append(@, Place),
                               !.seen_places = DictSet(@, _normalize_name(Place), Place)]
    /\ UNCHANGED <<pc, calls, result, first, parked, generator>>

\* "if len(place) > len(seen_orig)": place takes the representative's part
Replace ==
    /\ InLoop /\ Dup # 0 /\ Len(Place) > Len(SeenOrig)
    /\ frame' = [frame EXCEPT !.k = @ + 1,
                               !.refined = Append(Remove(@, SeenOrig), Place),
                               !.seen_places = DictSet(DictDel(@, Dup), _normalize_name(Place), Place)]
    /\ UNCHANGED <<pc, calls, result, first, parked, generator>>

\* place is similar to a representative and not longer: it is dropped
Drop ==
    /\ InLoop /\ Dup # 0 /\ ~(Len(Place) > Len(SeenOrig))
    /\ frame' = [frame EXCEPT !.k = @ + 1]
    /\ UNCHANGED <<pc, calls, result, first, parked, generator>>

\* "return refined[:self.max_places]", and "return []" for no places
ReturnRefined ==
    /\ pc = "loop" /\ frame.k > Len(frame.places)
    /\ pc' = "done"
    /\ result' = Some(Take(frame.refined, max_places))
    /\ UNCHANGED <<frame, calls, first, parked, generator>>

RefineNext ==
    \/ Accept
    \/ Replace
    \/ Drop
    \/ ReturnRefined

Refine == RefineInit /\ [][RefineNext]_vars

\* the steps give what _refine_places gives
RefineAgrees == pc = "done" => result = Some(_refine_places(frame.places))

\* C12: when the loop of _refine_places meets a name that is similar to an accepted
\* representative (and is not that very name), then after the step exactly one of
\* the two is in the output list, and it is the longer one, the representative if
\* they are equally long
C12_LongerOneStays ==
    [][InLoop /\ Dup # 0 /\ Place # SeenOrig =>
         LET kept == IF Len(Place) > Len(SeenOrig) THEN Place ELSE SeenOrig
             gone == IF Len(Place) > Len(SeenOrig) THEN SeenOrig ELSE Place
         IN  /\ kept \in Range(frame'.refined)
             /\ gone \notin Range(frame'.refined)]_vars

\* C13: the list _refine_places returns has at most 5 elements, each of them is one
\* of the input names, and no name occurs in it twice
C13_CappedInputNamesOnce ==
    pc = "done" =>
        /\ Len(result.v) <= 5
        /\ Range(result.v) \subseteq Range(frame.places)
        /\ \A i, j \in 1..Len(result.v) : i # j => result.v[i] # result.v[j]

\* C16: when a longer similar name replaces a representative, it takes the
\* representative's position in the output list, and every other name stays where
\* it is
C16_ReplacedInPlace ==
    [][InLoop /\ Dup # 0 /\ Len(Place) > Len(SeenOrig) =>
         frame'.refined = [i \in 1..Len(frame.refined) |->
                              IF frame.refined[i] = SeenOrig THEN Place ELSE frame.refined[i]]]_vars

(***************************************************************************)
(* Two threads of the web application in process_query of the one          *)
(* tourism_agent.  A thread runs from one provider call to the next; the   *)
(* call of the other thread is parked meanwhile.  random.choice draws from *)
(* the one generator of the process.  When both calls have returned, one   *)
(* of them is made again, alone: the providers answer as they did, and the *)
(* generator is as it was when the process started                         *)
(***************************************************************************)
ConcurrentQueries ==
    {"bye", "In Tokyo, what places can I visit?", "Paris weather and places"}

\* what the providers answer the two threads
ConcurrentGeocode == {[ok |-> TRUE, data |-> <<Bengaluru>>]}
ConcurrentWeather == {Failed, [ok |-> TRUE, current |-> Cur(Num(184), Num(20))]}
ConcurrentPlaces == {Failed, [ok |-> TRUE, names |-> Take(SampleNames, MaxNames \div 2)]}

\* what the generator will give random.choice, draw by draw
Tapes == {<<a, b>> : a, b \in {1, 2}}

ConcurrentInit ==
    /\ pc = "idle"
    /\ frame = NoFrame
    /\ calls = << >>
    /\ result = NoResult
    /\ first = None
    /\ parked = None
    /\ generator \in {[tape |-> t, drawn |-> 0] : t \in Tapes}

\* the call that is running
Context == [pc |-> pc, frame |-> frame, calls |-> calls, result |-> result]

\* a request arrives and a thread enters process_query: the first one, or a second
\* one while the first waits for a provider
Arrive(query, hour) ==
    /\ ~first.some
    /\ parked = None
    /\ pc = "idle" \/ pc \in Providers
    /\ parked' = IF pc = "idle" THEN None ELSE Some(Context)
    /\ Enter(query, hour)
    /\ UNCHANGED <<first, generator>>

\* Switch with the local variables of process_query kept in the agent, which the
\* threads share: the other thread goes on with what this thread left there
SwitchSharedFrame ==
    /\ parked.some
    /\ parked' = Some(Context)
    /\ pc' = parked.v.pc
    /\ calls' = parked.v.calls
    /\ result' = parked.v.result
    /\ UNCHANGED <<frame, first, generator>>

\* the running thread waits and the other thread runs
Switch ==
    /\ parked.some
    /\ parked' = Some(Context)
    /\ pc' = parked.v.pc
    /\ frame' = parked.v.frame
    /\ calls' = parked.v.calls
    /\ result' = parked.v.result
    /\ UNCHANGED <<first, generator>>

\* get_tourist_attractions returns, and random.choice draws from the generator if
\* there are places to list
AttractionsReturnDrawing(answer) ==
    /\ ListPlaces(answer, generator.tape[generator.drawn + 1])
    /\ generator' = [generator EXCEPT
                         !.drawn = IF Len(Attractions[answer]) > 0 THEN @ + 1 ELSE @]
    /\ UNCHANGED <<first, parked>>

\* every call has returned: the call of this thread is made again, alone, in a
\* process whose generator starts as this one did
Alone(hour) ==
    /\ pc = "done"
    /\ parked.some => parked.v.pc = "done"
    /\ ~first.some
    /\ first' = Some([user_input |-> frame.user_input, calls |-> calls, result |-> result])
    /\ parked' = None
    /\ generator' = [generator EXCEPT !.drawn = 0]
    /\ Enter(frame.user_input, hour)

ConcurrentNext ==
    \/ \E query \in ConcurrentQueries, hour \in Hours : Arrive(query, hour)
    \/ Switch
    \/ \E answer \in Answers("get_coordinates_with_details", ConcurrentGeocode) :
          CoordinatesReturn(answer)
    \/ \E answer \in Answers("get_weather", ConcurrentWeather) : WeatherReturn(answer)
    \/ \E answer \in Answers("get_tourist_attractions", ConcurrentPlaces) :
          AttractionsReturnDrawing(answer)
    \/ \E hour \in Hours : Alone(hour)

Concurrent == ConcurrentInit /\ [][ConcurrentNext]_vars

\* the call made alone has returned; first is the same call as it went while the
\* other thread ran
MadeAlone == pc = "done" /\ first.some

Extracted == Applied("extract_place_name") /\ result.v.some
Candidate == result.v.v

\* C21: every candidate extract_place_name returns, whichever strategy produced
\* it, is non-empty and longer than 2 characters
C21_LongerThanTwo == Extracted => Candidate # "" /\ Len(Candidate) > 2

\* C22: every candidate extract_place_name returns is a contiguous substring of
\* the query, in the letter case of the query
C22_SubstringOfTheQuery == Extracted => Contains(frame.args[1], Candidate)

\* C23: no candidate extract_place_name returns ends with one of , ? . !
C23_NoTrailingPunctuation ==
    Extracted => Candidate = "" \/ Chr(Candidate, Len(Candidate)) \notin PunctSet


(***************************************************************************)
(* The intent of a query                                                   *)
(***************************************************************************)
\* no weather keyword, no places keyword or phrase and no place-detail keyword occurs
\* in the lower-cased query
NoKeyword(user_input) ==
    ~AnyIn(weather_keywords \cup places_keywords \cup places_phrases \cup place_detail_keywords,
           Lower(user_input))

\* "going" is a word of the query, and the other words of the query hold no keyword
\* of an intent and no trip-planning word
OnlyGoing(user_input) ==
    Let(Split(Lower(user_input)), LAMBDA words :
        /\ "going" \in Range(words)
        /\ ~AnyIn(weather_keywords \cup places_keywords \cup places_phrases
                      \cup place_detail_keywords \cup trip_words,
                  Join(SelectSeq(words, LAMBDA w : w # "going"), " ")))

\* C24: the default rule of determine_intent: with no weather, places or place-detail
\* keyword in the lower-cased query the result has places true, and weather true
\* exactly if the query contains one of going, trip, travel, plan; and a query whose
\* only intent-bearing word is "going" gets this default, weather and places both true
C24_DefaultRule ==
    Applied("determine_intent") =>
        /\ NoKeyword(frame.args[1]) =>
               /\ result.v.places
               /\ result.v.weather = AnyIn(trip_words, Lower(frame.args[1]))
        /\ OnlyGoing(frame.args[1]) => result.v.weather /\ result.v.places


(***************************************************************************)
(* The second look at the region, after the places provider gave nothing   *)
(***************************************************************************)
\* the call process_query made last
LastCall == calls[Len(calls)]

\* process_query has ended after the places provider answered
AskedPlaces == pc = "done" /\ Len(calls) >= 2 /\ LastCall.provider = "get_tourist_attractions"

\* the attractions get_tourist_attractions made of that answer
Found == Attractions[LastCall.answer]

\* process_query has ended in the branch of the re-check: with the region
\* clarification of the re-check or with the no-data message, for the resolved place
Rechecked ==
    /\ pc = "done" /\ result.kind = "returned"
    /\ result.text \in {EnterCityText(frame.proper_place_name),
                        NoAttractionDataText(frame.proper_place_name)}

\* C25: process_query ends in the branch of the second region check exactly when the
\* places intent is true and get_tourist_attractions gave no attraction for a location
\* the first check took for a city; the response is then the region clarification or
\* the no-data message for the resolved place, and with at least one attraction the
\* re-check is not run
C25_RecheckOnlyWithoutAttractions ==
    /\ Rechecked => /\ AskedPlaces /\ Len(Found) = 0
                    /\ frame.intent.places /\ ~frame.is_state_or_region
    /\ AskedPlaces /\ Len(Found) = 0 => Rechecked
    /\ AskedPlaces /\ Len(Found) > 0 => ~Rechecked

\* a location the first check took for a city gave no attraction, and the re-check
\* called it a region
C25_Witness ==
    /\ AskedPlaces /\ Len(Found) = 0
    /\ ~frame.is_state_or_region
    /\ result.text = EnterCityText(frame.proper_place_name)


(***************************************************************************)
(* When check_if_state_or_region says region                               *)
(***************************************************************************)
\* the lower-cased name and the lower-cased fields of the geocode result of a call
\* of check_if_state_or_region
AskedName == Lower(frame.args[1])
AskedType == Lower(frame.args[2].type)
AskedClass == Lower(frame.args[2].class)
AskedDisplay == Lower(frame.args[2].display_name)

\* one of the city rules holds: the whitelist, the name followed by a comma within
\* the first 50 characters, city or town in the display name with the name, a
\* city-type indicator in the type or the class
AsCity ==
    \/ Strip(AskedName) \in region_major_cities
    \/ Find(AskedDisplay, AskedName \o ",", 1) \in 1..50
    \/ /\ Contains(AskedDisplay, "city") \/ Contains(AskedDisplay, "town")
       /\ Contains(AskedDisplay, AskedName)
    \/ \E indicator \in {"city", "town", "village", "municipality", "suburb"} :
           Contains(AskedType, indicator) \/ Contains(AskedClass, indicator)

AsCountry ==
    /\ AskedClass = "boundary" /\ AskedType = "administrative"
    /\ Contains(AskedDisplay, "country") /\ Contains(AskedDisplay, AskedName)
    /\ frame.args[2].importance > 80

AsState ==
    /\ Contains(AskedType, "administrative") /\ AskedClass = "administrative"
    /\ frame.args[2].importance \in 40..70
    /\ ~Contains(Strip(SplitOn(AskedDisplay, ",")[1]), AskedName)
    /\ ~\E i \in 1..Len(SplitOn(AskedDisplay, ",")) :
           Contains(SplitOn(AskedDisplay, ",")[i], "city")
               \/ Contains(SplitOn(AskedDisplay, ",")[i], "town")

\* C26: check_if_state_or_region returns True only through the country rule or the
\* state rule, and only when none of the city rules before them holds; in every
\* other case it returns False
C26_RegionOnlyByCountryOrState ==
    Applied("check_if_state_or_region") =>
        /\ result.v \in BOOLEAN
        /\ result.v => (AsCountry \/ AsState) /\ ~AsCity

\* the classifier has said region, through the state rule
C26_Witness ==
    /\ Applied("check_if_state_or_region")
    /\ result.v = TRUE
    /\ AsState /\ ~AsCountry /\ ~AsCity


(***************************************************************************)
(* The major cities and the region clarification                           *)
(***************************************************************************)
\* the response says the place appears to be a country, state or region
SaysRegion ==
    /\ pc = "done" /\ result.kind = "returned"
    /\ Contains(result.text, "it appears to be a country, state, or region")

\* the geocode provider has answered with a location whose name, as process_query
\* resolves it, is in the whitelist of major cities of check_if_state_or_region
ResolvedToMajorCity ==
    /\ Geocoded /\ Resolved.some
    /\ Strip(Lower(ResolvedName)) \in region_major_cities

\* C27: a location whose resolved name is in the whitelist of major cities never gets
\* a response that says it appears to be a country, state or region, whatever the
\* geocode result holds and whatever the places provider returns
C27_MajorCityNeverARegion == ResolvedToMajorCity => ~SaysRegion


(***************************************************************************)
(* An intent is always there                                               *)
(***************************************************************************)
\* determine_intent sets one of weather, places, place_detail for each of the
\* queries: those of the callers and those drawn for determine_intent alone
EveryQueryHasAnIntent ==
    \A q \in {Strip(raw) : raw \in Queries} \cup IntentQueries :
        Let(determine_intent(q), LAMBDA wanted :
            wanted.weather \/ wanted.places \/ wanted.place_detail)

\* process_query has reached its fetch stage: the geocode provider has answered, the
\* location is resolved and it was not taken for a region
Fetching ==
    /\ Geocoded /\ Resolved.some
    /\ ~(pc = "done" /\ result.branch = "region")

\* the generic message of the end of process_query has been returned
SaysUnable ==
    /\ pc = "done" /\ result.kind = "returned"
    /\ Contains(result.text, "Unable to fetch information")

\* C28: determine_intent sets at least one of weather, places, place_detail for every
\* query; so a call of process_query that reaches the fetch stage calls the weather or
\* the places provider, and it returns the generic 'Unable to fetch information'
\* message only when weather was the only intent and the weather call gave nothing
C28_SomeIntentAlways ==
    /\ EveryQueryHasAnIntent
    /\ Running => Known.intent.weather \/ Known.intent.places \/ Known.intent.place_detail
    /\ Fetching => /\ ~frame.intent.place_detail
                   /\ \E provider \in {"get_weather", "get_tourist_attractions"} :
                          provider \in Range(CalledSoFar)
    /\ SaysUnable => /\ frame.intent.weather /\ ~frame.intent.places
                     /\ Len(calls) = 2 /\ calls[2].provider = "get_weather"
                     /\ ~get_weather(calls[2].answer).some

\* weather was the only intent, the weather call gave nothing, and the generic
\* message was returned
C28_Witness ==
    /\ SaysUnable
    /\ frame.intent.weather /\ ~frame.intent.places
    /\ calls[2].provider = "get_weather" /\ ~get_weather(calls[2].answer).some


(***************************************************************************)
(* The clusters of similar names                                           *)
(***************************************************************************)
\* C29: no two distinct names of the list _refine_places returns are similar to each
\* other under _is_similar: the list holds one representative of each cluster, also
\* after a longer name has replaced a representative
C29_NoTwoSimilar ==
    pc = "done" =>
        \A i, j \in 1..Len(result.v) :
            result.v[i] # result.v[j] => ~_is_similar(result.v[i], result.v[j])

\* C30: _is_similar is symmetric and reflexive: _is_similar(a, b) = _is_similar(b, a)
\* and _is_similar(a, a) is true for all names a and b, names with a token that
\* occurs more than once included
C30_SymmetricAndReflexive ==
    Applied("_is_similar") =>
        /\ result.v = _is_similar(frame.args[2], frame.args[1])
        /\ frame.args[1] = frame.args[2] => result.v = TRUE

====
